---- MODULE Spec2Model ----
(***************************************************************************)
(* Hotcue store, keyboard dispatcher, save/dirty coordinator               *)
(* (CustomVideoPlayer.js) and the navigation guard of the hosting shell    *)
(* (MainApp, VideoSidebar.js).                                             *)
(*                                                                         *)
(* JavaScript values are encoded as follows.  A hotcue object              *)
(* {time, name} is the record [type |-> "object", time |-> t, name |-> n]; *)
(* a legacy bare number is [type |-> "number", num |-> t].  A label is a   *)
(* sequence of characters, '' is << >>.  A hotcue mapping is a function    *)
(* whose domain is the set of its keys.  null is the string "null".        *)
(***************************************************************************)
EXTENDS Integers, Sequences, FiniteSets, TLC

\* ------------------------------------------------------------------ bounds
\* largest playback position (seconds) the player reports
MaxTime == 1
\* largest number of setHotcues updates waiting for a render
MaxPending == 2
\* largest length of the text typed into a label input
MaxLabelLen == 1
\* largest number of POST /videos requests awaiting their response
MaxRequests == 2
\* largest clientX of a pointer event
MaxClientX == 4

\* ------------------------------------------------------- program constants
LETTER_KEYS ==
  {"q", "w", "e", "r", "t", "y", "u", "i", "o", "p", "a", "s", "d", "f", "g",
   "h", "j", "k", "l", "z", "x", "c", "v", "b", "n", "m"}

\* the keys the user presses in the model: a hotcue letter, the play/pause
\* letter and Space
PressedKeys == {"q", "k", "Space"}
\* the hotcue letters whose buttons (clear, label) the user clicks
ClickedKeys == {"q", "w"}
\* the videos of the library
Videos == {"v1", "v2"}
\* characters of a label text
Chars == {" ", "a"}
Null == "null"

Times == 0..MaxTime

\* what getDuration() returns once the video's metadata is known
VideoDuration == 2
\* getBoundingClientRect() of the progress track
TrackRect == [type |-> "rect", left |-> 1, width |-> 2]
\* the positions (clientX) the pointer takes
ClientXs == 0..MaxClientX

\* ------------------------------------------------------ JavaScript values
Num(n) == [type |-> "number", num |-> n]

NaN == [type |-> "number", num |-> 0, nan |-> TRUE]

Str(s) == [type |-> "string", str |-> s]

Undefined == [type |-> "undefined"]

NullV == [type |-> "null"]

IsNaN(v) == "nan" \in DOMAIN v

\* a hotcue mapping (a plain object keyed by hotcue letters)
IsMapping(v) == "type" \notin DOMAIN v

\* the typeof operator (typeof null is 'object')
TypeOf(v) ==
  IF IsMapping(v) THEN "object"
  ELSE IF v.type = "null" THEN "object" ELSE v.type

\* ToBoolean, as used by !x, x && y and x || y
Truthy(v) ==
  IF IsMapping(v) THEN TRUE
  ELSE CASE v.type = "undefined" -> FALSE
         [] v.type = "null" -> FALSE
         [] v.type = "number" -> ~IsNaN(v) /\ v.num # 0
         [] v.type = "string" -> v.str # << >>
         [] OTHER -> TRUE

\* a !== b on primitive values
StrictNotEqual(a, b) ==
  IF a.type = "number" /\ b.type = "number"
    THEN IsNaN(a) \/ IsNaN(b) \/ a.num # b.num
    ELSE a # b

\* property read o[f]; undefined when the property is absent
Field(o, f) == IF f \in DOMAIN o THEN o[f] ELSE Undefined

\* --------------------------------------------------------- hotcue mappings
Hotcue(t, n) == [type |-> "object", time |-> Num(t), name |-> Str(n)]

EmptyStore == [x \in {} |-> Hotcue(0, << >>)]

\* { ...s, [key]: h }
Put(s, key, h) == [x \in (DOMAIN s) \cup {key} |-> IF x = key THEN h ELSE s[x]]

\* delete s[key] on a copy of s
Remove(s, key) == [x \in (DOMAIN s) \ {key} |-> s[x]]

\* String.prototype.trim on a label text
RECURSIVE TrimLeft(_)
TrimLeft(s) ==
  IF s = << >> THEN << >>
  ELSE IF Head(s) = " " THEN TrimLeft(Tail(s)) ELSE s

RECURSIVE TrimRight(_)
TrimRight(s) ==
  IF s = << >> THEN << >>
  ELSE IF s[Len(s)] = " " THEN TrimRight(SubSeq(s, 1, Len(s) - 1)) ELSE s

\* trim returning the text as it is
TrimNothing(s) == s

Trim(s) == TrimRight(TrimLeft(s))

\* typeof hotcue === 'number' ? hotcue : hotcue.time
TimeOf(h) == IF TypeOf(h) = "number" THEN h ELSE Field(h, "time")

\* typeof hotcue === 'object' ? (hotcue.name || '') : ''
NameOf(h) ==
  IF TypeOf(h) = "object"
    THEN (IF Truthy(Field(h, "name")) THEN h.name ELSE Str(<< >>))
    ELSE Str(<< >>)

\* normalizeHotcues converting only the legacy bare numbers
normalizeHotcuesNumbersOnly(raw) ==
  IF ~Truthy(raw) THEN EmptyStore
  ELSE
    LET kept == {key \in DOMAIN raw : TypeOf(raw[key]) = "number"}
    IN [key \in kept |->
          [type |-> "object", time |-> raw[key], name |-> Str(<< >>)]]

\* normalizeHotcues keeping every object entry, whatever its time
normalizeHotcuesKeepsObjects(raw) ==
  IF ~Truthy(raw) THEN EmptyStore
  ELSE
    LET kept == {key \in DOMAIN raw :
                   \/ TypeOf(raw[key]) = "number"
                   \/ Truthy(raw[key]) /\ TypeOf(raw[key]) = "object"}
    IN [key \in kept |->
          IF TypeOf(raw[key]) = "number"
            THEN [type |-> "object", time |-> raw[key], name |-> Str(<< >>)]
            ELSE [type |-> "object", time |-> Field(raw[key], "time"),
                  name |-> IF Truthy(Field(raw[key], "name"))
                             THEN raw[key].name ELSE Str(<< >>)]]

normalizeHotcues(raw) ==
  IF ~Truthy(raw) THEN EmptyStore
  ELSE
    LET kept == {key \in DOMAIN raw :
                   \/ TypeOf(raw[key]) = "number"
                   \/ /\ Truthy(raw[key])
                      /\ TypeOf(raw[key]) = "object"
                      /\ TypeOf(Field(raw[key], "time")) = "number"}
    IN [key \in kept |->
          IF TypeOf(raw[key]) = "number"
            THEN [type |-> "object", time |-> raw[key], name |-> Str(<< >>)]
            ELSE [type |-> "object", time |-> raw[key].time,
                  name |-> IF Truthy(Field(raw[key], "name"))
                             THEN raw[key].name ELSE Str(<< >>)]]

\* hasUnsavedChanges without the comparison of the labels
hasUnsavedChangesTimesOnly(current, initial) ==
  LET currentKeys == DOMAIN current
      initialKeys == DOMAIN initial
  IN IF Cardinality(currentKeys) # Cardinality(initialKeys) THEN TRUE
     ELSE IF \E key \in currentKeys :
               \/ ~Truthy(Field(initial, key))
               \/ StrictNotEqual(TimeOf(current[key]), TimeOf(initial[key]))
          THEN TRUE
     ELSE IF \E key \in initialKeys : ~Truthy(Field(current, key)) THEN TRUE
     ELSE FALSE

\* the comparison of hasUnsavedChanges on two mappings
hasUnsavedChangesOf(current, initial) ==
  LET currentKeys == DOMAIN current
      initialKeys == DOMAIN initial
  IN IF Cardinality(currentKeys) # Cardinality(initialKeys) THEN TRUE
     ELSE IF \E key \in currentKeys :
               \/ ~Truthy(Field(initial, key))
               \/ StrictNotEqual(TimeOf(current[key]), TimeOf(initial[key]))
               \/ StrictNotEqual(NameOf(current[key]), NameOf(initial[key]))
          THEN TRUE
     ELSE IF \E key \in initialKeys : ~Truthy(Field(current, key)) THEN TRUE
     ELSE FALSE

\* ------------------------------------------------------------------ state
VARIABLES
  \* MainApp (hosting shell)
  page,               \* "main" while MainApp is routed, "login" after logout
  videoId,            \* MainApp.videoId, Null when no video is active
  youtubeUrl,         \* MainApp.youtubeUrl
  appHotcues,         \* MainApp.hotcues, the initialHotcues prop of the player
  showUnsavedModal,
  pendingVideo,       \* NullV or a video record
  pendingAction,      \* Null, "select" or "navigate"
  modalTimers,        \* closures of the pending 500 ms timeouts of the modal
  \* CustomVideoPlayer (the mounted instance)
  hotcues,            \* the rendered hotcues state
  hotcuesRef,         \* hotcuesRef.current, the live Hotcue Set
  initialHotcuesRef,  \* initialHotcuesRef.current, the Saved Snapshot
  hotcuesIsInitial,   \* hotcues is the very object held by initialHotcuesRef
  queue,              \* setHotcues updates not yet applied by a render
  editingHotcue,      \* key whose label input is open, or Null
  isPlayerReady,
  playerTime,         \* what getCurrentTime returns
  playing,            \* getPlayerState() === PLAYING
  isSaving,
  saveMessage,        \* NullV, or the {type, text} message shown by the player
  messageTimer,       \* a 5 s timeout that clears saveMessage is pending
  requests,           \* POST /videos requests in flight
  flushSync,          \* React renders the updates of a handler before the
                      \* next event (constant during a behaviour)
  \* player session of the mounted instance
  ytApi,              \* window.YT && window.YT.Player
  apiCallback,        \* window.onYouTubeIframeAPIReady is this instance's
  checkInterval,      \* the 100 ms readiness-check interval is running
  rafs,               \* requestAnimationFrame callbacks of initPlayer pending
  players,            \* YT.Player objects constructed and not destroyed
  playerRef,          \* playerRef.current is a player
  timedOut,           \* the 10 s timeout of the readiness wait fired with
                      \* the IFrame API not loaded
  leaked,             \* a player of a torn-down instance was never destroyed
  stale,              \* callbacks of torn-down instances still pending:
                      \* "raf", "interval", "callback"
  \* progress track
  isDragging,
  dragTime,
  duration,
  currentTime,
  progressBarRef,     \* NullV, or the bounding rect of the track element
  gesture,            \* the pointer interaction under way on the track
  \* flash of a triggered hotcue
  triggeredHotcue,    \* Null, or the key whose button flashes
  flashTimers,        \* the pending 250 ms timeouts that clear the flash:
                      \* latest, of the keydown that triggered last, and
                      \* earlier, of keydowns before it
  \* event dispatch and observation
  last                \* the operation that ran last; for a keydown, the
                      \* player commands it issued

shellVars == <<page, videoId, youtubeUrl, appHotcues, showUnsavedModal,
               pendingVideo, pendingAction, modalTimers>>

storeVars == <<hotcues, hotcuesRef, initialHotcuesRef, hotcuesIsInitial, queue>>

playbackVars == <<isPlayerReady, playerTime, playing>>

saveVars == <<isSaving, requests, saveMessage, messageTimer>>

sessionVars == <<ytApi, apiCallback, checkInterval, rafs, players, playerRef,
                 timedOut, leaked, stale>>

seekVars == <<isDragging, dragTime, duration, currentTime, progressBarRef,
              gesture>>

flashVars == <<triggeredHotcue, flashTimers>>

vars == <<shellVars, storeVars, playbackVars, saveVars, editingHotcue,
          flushSync, sessionVars, seekVars, flashVars, last>>

\* label texts the user can type
RECURSIVE SeqsUpTo(_, _)
SeqsUpTo(S, n) ==
  IF n = 0 THEN {<< >>}
  ELSE LET shorter == SeqsUpTo(S, n - 1)
       IN shorter \cup {Append(t, c) : t \in shorter, c \in S}

LabelTexts == SeqsUpTo(Chars, MaxLabelLen)

\* hotcues objects a video record of the sidebar can carry
RecordHotcues ==
  { NullV,
    [x \in {"q"} |-> Num(1)],
    [x \in {"w"} |-> Hotcue(0, <<"a">>)] }

VideoRecord(v, h) == [videoId |-> v, youtubeUrl |-> v, hotcues |-> h]

VideoRecords == {VideoRecord(v, h) : v \in Videos, h \in RecordHotcues}

Mounted == page = "main" /\ videoId # Null

\* no pointer interaction under way on the progress track
NoGesture == [phase |-> "idle"]

\* no timeout of a flash is pending
NoFlash == [earlier |-> FALSE, latest |-> FALSE]

\* no player instance is mounted, the IFrame API script is not loaded
NoSession ==
  /\ ytApi = FALSE
  /\ apiCallback = FALSE
  /\ checkInterval = FALSE
  /\ rafs = 0
  /\ players = 0
  /\ playerRef = FALSE
  /\ timedOut = FALSE
  /\ leaked = FALSE
  /\ stale = {}

\* no player instance is mounted, and the IFrame API script was loaded by
\* an instance that was mounted (and torn down) before
ApiLoaded ==
  /\ ytApi = TRUE
  /\ apiCallback = FALSE
  /\ checkInterval = FALSE
  /\ rafs = 0
  /\ players = 0
  /\ playerRef = FALSE
  /\ timedOut = FALSE
  /\ leaked = FALSE
  /\ stale = {}

\* the instance was mounted with the IFrame API loaded, and the animation
\* frame that runs initPlayer has constructed its player
OneSession ==
  /\ ytApi = TRUE
  /\ apiCallback = FALSE
  /\ checkInterval = FALSE
  /\ rafs = 0
  /\ players = 1
  /\ playerRef = TRUE
  /\ timedOut = FALSE
  /\ leaked = FALSE
  /\ stale = {}

\* hasUnsavedChanges() of the mounted player
hasUnsavedChanges == hasUnsavedChangesOf(hotcuesRef, initialHotcuesRef)

InitFrom(loaded) ==
  /\ page = "main"
  /\ videoId = Null
  /\ youtubeUrl = Null
  /\ appHotcues = NullV
  /\ showUnsavedModal = FALSE
  /\ pendingVideo = NullV
  /\ pendingAction = Null
  /\ modalTimers = << >>
  /\ hotcues = EmptyStore
  /\ hotcuesRef = EmptyStore
  /\ initialHotcuesRef = EmptyStore
  /\ hotcuesIsInitial = TRUE
  /\ queue = << >>
  /\ editingHotcue = Null
  /\ isPlayerReady = FALSE
  /\ playerTime = 0
  /\ playing = FALSE
  /\ isSaving = FALSE
  /\ saveMessage = NullV
  /\ messageTimer = FALSE
  /\ requests = << >>
  /\ flushSync = TRUE
  /\ IF loaded THEN ApiLoaded ELSE NoSession
  /\ isDragging = FALSE
  /\ dragTime = 0
  /\ duration = 0
  /\ currentTime = 0
  /\ progressBarRef = NullV
  /\ gesture = NoGesture
  /\ triggeredHotcue = Null
  /\ flashTimers = NoFlash
  /\ last = [op |-> "init"]

\* the application starts; the IFrame API script loads with the first player
Init == InitFrom(FALSE)

\* the application after an earlier player instance loaded the IFrame API
InitLoaded == InitFrom(TRUE)

\* ------------------------------------------------------- React state updates
\* The hotcues state and the hotcuesRef mirror after a render has applied
\* the queued setHotcues updates in order.  A queued clearHotcue updater
\* assigns hotcuesRef.current when it runs.
RECURSIVE applyUpdates(_, _, _)
applyUpdates(q, state, ref) ==
  IF q = << >> THEN [state |-> state, ref |-> ref]
  ELSE
    LET u == Head(q)
    IN CASE u.kind = "value" -> applyUpdates(Tail(q), u.value, ref)
         [] u.kind = "clear" ->
              LET newHotcues == Remove(state, u.key)
              IN applyUpdates(Tail(q), newHotcues, newHotcues)
         [] OTHER ->
              \* the updater of handleHotcueLabelBlur
              LET newHotcues ==
                    IF Truthy(Field(state, u.key))
                      THEN Put(state, u.key,
                               [type |-> "object", time |-> TimeOf(state[u.key]),
                                name |-> Str(Trim(u.text))])
                      ELSE state
              IN applyUpdates(Tail(q), newHotcues, ref)

\* The store after a render of the player has applied the updates q: the
\* effect on [hotcues] copies the state into hotcuesRef unless the state
\* object is the one rendered before.
rendered(q, state, ref, isInitial) ==
  IF q = << >>
    THEN [state |-> state, ref |-> ref, isInitial |-> isInitial]
    ELSE LET r == applyUpdates(q, state, ref)
             lastUpdate == q[Len(q)]
             sameObject == /\ lastUpdate.kind = "value"
                           /\ lastUpdate.same
                           /\ isInitial
         IN [state |-> r.state,
             ref |-> IF sameObject THEN r.ref ELSE r.state,
             isInitial |-> (lastUpdate.kind = "value" /\ lastUpdate.same)]

\* setHotcues losing its updates: only the assignment of hotcuesRef.current
\* by the handler takes effect
commitRefOnly(ref, enq) ==
  /\ hotcuesRef' = ref
  /\ queue' = << >>
  /\ UNCHANGED <<hotcues, hotcuesIsInitial>>

\* A handler has assigned ref to hotcuesRef.current and called setHotcues
\* with the updates enq.  With flushSync React renders before the handler's
\* event is over; otherwise the updates wait for Render.
commit(ref, enq) ==
  IF flushSync
    THEN LET r == rendered(queue \o enq, hotcues, ref, hotcuesIsInitial)
         IN /\ hotcues' = r.state
            /\ hotcuesRef' = r.ref
            /\ hotcuesIsInitial' = r.isInitial
            /\ queue' = << >>
    ELSE /\ hotcuesRef' = ref
         /\ queue' = queue \o enq
         /\ UNCHANGED <<hotcues, hotcuesIsInitial>>

\* ----------------------------------------------------- keyboard dispatcher
\* which player call of a handler run throws
Throws == {"none", "getCurrentTime", "seekTo", "playVideo", "getPlayerState"}

SeekTo(t) == [cmd |-> "seekTo", arg |-> t]

PlayVideo == [cmd |-> "playVideo", arg |-> Num(0)]

PauseVideo == [cmd |-> "pauseVideo", arg |-> Num(0)]

\* position of the player after seekTo(t)
Seeked(t) == IF IsNaN(t) \/ t.num < 0 THEN 0 ELSE t.num

\* handleKeyPress with a jump branch that also stamps the hotcue with the
\* position it seeks from (a set that is not skipped for an existing key)
handleKeyPressResets(key, isText, valid, thr, ref, time, play) ==
  LET same(branch, threw, prevented, trig) ==
        [ref |-> ref, enq |-> << >>, cmds |-> << >>, time |-> time,
         play |-> play, branch |-> branch, threw |-> threw,
         prevented |-> prevented, trig |-> trig]
  IN
  IF isText THEN same("ignored", FALSE, FALSE, << >>)
  ELSE IF key \in LETTER_KEYS /\ playerRef /\ isPlayerReady THEN
    IF Field(ref, key) # Undefined THEN
      \* jump
      LET hotcueTime == TimeOf(ref[key])
      IN CASE thr = "seekTo" -> same("jump", TRUE, TRUE, <<key>>)
           [] thr = "playVideo" ->
                [ref |-> ref, enq |-> << >>, cmds |-> <<SeekTo(hotcueTime)>>,
                 time |-> Seeked(hotcueTime), play |-> play,
                 branch |-> "jump", threw |-> TRUE,
                 prevented |-> TRUE, trig |-> <<key>>]
           [] OTHER ->
                [ref |-> Put(ref, key, Hotcue(time, << >>)), enq |-> << >>,
                 cmds |-> <<SeekTo(hotcueTime), PlayVideo>>,
                 time |-> Seeked(hotcueTime), play |-> TRUE,
                 branch |-> "jump", threw |-> FALSE,
                 prevented |-> TRUE, trig |-> <<key>>]
    ELSE
      \* set
      IF thr = "getCurrentTime" THEN same("set", TRUE, TRUE, <<Null>>)
      ELSE IF valid THEN
        LET newHotcues == Put(ref, key, Hotcue(time, << >>))
        IN [ref |-> newHotcues,
            enq |-> <<[kind |-> "value", value |-> newHotcues, same |-> FALSE]>>,
            cmds |-> << >>, time |-> time, play |-> play,
            branch |-> "set", threw |-> FALSE,
            prevented |-> TRUE, trig |-> <<key>>]
      ELSE same("setInvalid", FALSE, TRUE, << >>)
  ELSE IF key = "Space" \/ key = "k" THEN
    IF playerRef /\ isPlayerReady THEN
      IF thr = "getPlayerState" THEN same("toggle", TRUE, TRUE, << >>)
      ELSE [ref |-> ref, enq |-> << >>,
            cmds |-> <<IF play THEN PauseVideo ELSE PlayVideo>>,
            time |-> time, play |-> ~play, branch |-> "toggle",
            threw |-> FALSE, prevented |-> TRUE, trig |-> << >>]
    ELSE same("notReady", FALSE, TRUE, << >>)
  ELSE same("none", FALSE, FALSE, << >>)

\* handleKeyPress testing the event target only after the hotcue letters
\* were dispatched, so that typing a letter in a text field sets or jumps
handleKeyPressGuardsToggleOnly(key, isText, valid, thr, ref, time, play) ==
  LET same(branch, threw, prevented, trig) ==
        [ref |-> ref, enq |-> << >>, cmds |-> << >>, time |-> time,
         play |-> play, branch |-> branch, threw |-> threw,
         prevented |-> prevented, trig |-> trig]
  IN
  IF key \in LETTER_KEYS /\ playerRef /\ isPlayerReady THEN
    IF Field(ref, key) # Undefined THEN
      \* jump
      LET hotcueTime == TimeOf(ref[key])
      IN CASE thr = "seekTo" -> same("jump", TRUE, TRUE, <<key>>)
           [] thr = "playVideo" ->
                [ref |-> ref, enq |-> << >>, cmds |-> <<SeekTo(hotcueTime)>>,
                 time |-> Seeked(hotcueTime), play |-> play,
                 branch |-> "jump", threw |-> TRUE,
                 prevented |-> TRUE, trig |-> <<key>>]
           [] OTHER ->
                [ref |-> ref, enq |-> << >>,
                 cmds |-> <<SeekTo(hotcueTime), PlayVideo>>,
                 time |-> Seeked(hotcueTime), play |-> TRUE,
                 branch |-> "jump", threw |-> FALSE,
                 prevented |-> TRUE, trig |-> <<key>>]
    ELSE
      \* set
      IF thr = "getCurrentTime" THEN same("set", TRUE, TRUE, <<Null>>)
      ELSE IF valid THEN
        LET newHotcues == Put(ref, key, Hotcue(time, << >>))
        IN [ref |-> newHotcues,
            enq |-> <<[kind |-> "value", value |-> newHotcues, same |-> FALSE]>>,
            cmds |-> << >>, time |-> time, play |-> play,
            branch |-> "set", threw |-> FALSE,
            prevented |-> TRUE, trig |-> <<key>>]
      ELSE same("setInvalid", FALSE, TRUE, << >>)
  ELSE IF isText THEN same("ignored", FALSE, FALSE, << >>)
  ELSE IF key = "Space" \/ key = "k" THEN
    IF playerRef /\ isPlayerReady THEN
      IF thr = "getPlayerState" THEN same("toggle", TRUE, TRUE, << >>)
      ELSE [ref |-> ref, enq |-> << >>,
            cmds |-> <<IF play THEN PauseVideo ELSE PlayVideo>>,
            time |-> time, play |-> ~play, branch |-> "toggle",
            threw |-> FALSE, prevented |-> TRUE, trig |-> << >>]
    ELSE same("notReady", FALSE, TRUE, << >>)
  ELSE same("none", FALSE, FALSE, << >>)

\* handleKeyPress with a toggle branch that commands the player without
\* testing that it is ready
handleKeyPressTogglesUnready(key, isText, valid, thr, ref, time, play) ==
  LET same(branch, threw, prevented, trig) ==
        [ref |-> ref, enq |-> << >>, cmds |-> << >>, time |-> time,
         play |-> play, branch |-> branch, threw |-> threw,
         prevented |-> prevented, trig |-> trig]
  IN
  IF isText THEN same("ignored", FALSE, FALSE, << >>)
  ELSE IF key \in LETTER_KEYS /\ playerRef /\ isPlayerReady THEN
    IF Field(ref, key) # Undefined THEN
      \* jump
      LET hotcueTime == TimeOf(ref[key])
      IN CASE thr = "seekTo" -> same("jump", TRUE, TRUE, <<key>>)
           [] thr = "playVideo" ->
                [ref |-> ref, enq |-> << >>, cmds |-> <<SeekTo(hotcueTime)>>,
                 time |-> Seeked(hotcueTime), play |-> play,
                 branch |-> "jump", threw |-> TRUE,
                 prevented |-> TRUE, trig |-> <<key>>]
           [] OTHER ->
                [ref |-> ref, enq |-> << >>,
                 cmds |-> <<SeekTo(hotcueTime), PlayVideo>>,
                 time |-> Seeked(hotcueTime), play |-> TRUE,
                 branch |-> "jump", threw |-> FALSE,
                 prevented |-> TRUE, trig |-> <<key>>]
    ELSE
      \* set
      IF thr = "getCurrentTime" THEN same("set", TRUE, TRUE, <<Null>>)
      ELSE IF valid THEN
        LET newHotcues == Put(ref, key, Hotcue(time, << >>))
        IN [ref |-> newHotcues,
            enq |-> <<[kind |-> "value", value |-> newHotcues, same |-> FALSE]>>,
            cmds |-> << >>, time |-> time, play |-> play,
            branch |-> "set", threw |-> FALSE,
            prevented |-> TRUE, trig |-> <<key>>]
      ELSE same("setInvalid", FALSE, TRUE, << >>)
  ELSE IF key = "Space" \/ key = "k" THEN
    IF TRUE THEN
      IF thr = "getPlayerState" THEN same("toggle", TRUE, TRUE, << >>)
      ELSE [ref |-> ref, enq |-> << >>,
            cmds |-> <<IF play THEN PauseVideo ELSE PlayVideo>>,
            time |-> time, play |-> ~play, branch |-> "toggle",
            threw |-> FALSE, prevented |-> TRUE, trig |-> << >>]
    ELSE same("notReady", FALSE, TRUE, << >>)
  ELSE same("none", FALSE, FALSE, << >>)

\* One run of handleKeyPress on the state (ref, time, play): the new
\* hotcuesRef.current, the setHotcues updates it enqueues, the player
\* commands it completes and the resulting playback state.
\* valid: getCurrentTime returns a number that is not NaN.
\* prevented: the run called e.preventDefault(); trig: the values the run
\* passed to setTriggeredHotcue, in order.
handleKeyPress(key, isText, valid, thr, ref, time, play) ==
  LET same(branch, threw, prevented, trig) ==
        [ref |-> ref, enq |-> << >>, cmds |-> << >>, time |-> time,
         play |-> play, branch |-> branch, threw |-> threw,
         prevented |-> prevented, trig |-> trig]
  IN
  IF isText THEN same("ignored", FALSE, FALSE, << >>)
  ELSE IF key \in LETTER_KEYS /\ playerRef /\ isPlayerReady THEN
    IF Field(ref, key) # Undefined THEN
      \* jump
      LET hotcueTime == TimeOf(ref[key])
      IN CASE thr = "seekTo" -> same("jump", TRUE, TRUE, <<key>>)
           [] thr = "playVideo" ->
                [ref |-> ref, enq |-> << >>, cmds |-> <<SeekTo(hotcueTime)>>,
                 time |-> Seeked(hotcueTime), play |-> play,
                 branch |-> "jump", threw |-> TRUE,
                 prevented |-> TRUE, trig |-> <<key>>]
           [] OTHER ->
                [ref |-> ref, enq |-> << >>,
                 cmds |-> <<SeekTo(hotcueTime), PlayVideo>>,
                 time |-> Seeked(hotcueTime), play |-> TRUE,
                 branch |-> "jump", threw |-> FALSE,
                 prevented |-> TRUE, trig |-> <<key>>]
    ELSE
      \* set
      IF thr = "getCurrentTime" THEN same("set", TRUE, TRUE, <<Null>>)
      ELSE IF valid THEN
        LET newHotcues == Put(ref, key, Hotcue(time, << >>))
        IN [ref |-> newHotcues,
            enq |-> <<[kind |-> "value", value |-> newHotcues, same |-> FALSE]>>,
            cmds |-> << >>, time |-> time, play |-> play,
            branch |-> "set", threw |-> FALSE,
            prevented |-> TRUE, trig |-> <<key>>]
      ELSE same("setInvalid", FALSE, TRUE, << >>)
  ELSE IF key = "Space" \/ key = "k" THEN
    IF playerRef /\ isPlayerReady THEN
      IF thr = "getPlayerState" THEN same("toggle", TRUE, TRUE, << >>)
      ELSE [ref |-> ref, enq |-> << >>,
            cmds |-> <<IF play THEN PauseVideo ELSE PlayVideo>>,
            time |-> time, play |-> ~play, branch |-> "toggle",
            threw |-> FALSE, prevented |-> TRUE, trig |-> << >>]
    ELSE same("notReady", FALSE, TRUE, << >>)
  ELSE same("none", FALSE, FALSE, << >>)

\* One keydown event.  The listener is registered in the capture phase on
\* window and on document, so handleKeyPress runs for the event once on
\* window and then once more on document, on the state the first run left.
\* thr: the player call that throws during this event, if any.
\* A run that triggers the flash of its key starts a 250 ms timeout.
\* state: what getPlayerState() answers in the second run, the state the
\* player had before the event or the one the first run asked for (the
\* player reports its state asynchronously).
KeyDown(key, isText, valid, thr) ==
  /\ Mounted
  /\ Len(queue) < MaxPending
  /\ LET r1 == handleKeyPress(key, isText, valid, thr, hotcuesRef, playerTime, playing)
     IN \E state \in {playing, r1.play} :
          LET r2 == handleKeyPress(key, isText, valid, thr, r1.ref, r1.time, state)
              trig == r1.trig \o r2.trig
              flashed == \E i \in 1..Len(trig) : trig[i] # Null
          IN /\ commit(r2.ref, r1.enq \o r2.enq)
             /\ playerTime' = r2.time
             /\ playing' = r2.play
             /\ triggeredHotcue' = IF trig = << >> THEN triggeredHotcue
                                   ELSE trig[Len(trig)]
             /\ flashTimers' =
                  IF flashed
                    THEN [earlier |-> flashTimers.earlier \/ flashTimers.latest,
                          latest |-> TRUE]
                    ELSE flashTimers
             /\ last' = [op |-> "keydown", key |-> key, isText |-> isText,
                         branches |-> <<r1.branch, r2.branch>>,
                         threws |-> <<r1.threw, r2.threw>>,
                         cmds |-> r1.cmds \o r2.cmds,
                         prevented |-> r1.prevented \/ r2.prevented,
                         trig |-> trig]
  /\ UNCHANGED <<shellVars, saveVars, initialHotcuesRef, editingHotcue,
                 isPlayerReady, flushSync, sessionVars, seekVars>>

\* a 250 ms timeout of a flash fires: setTriggeredHotcue(null).  The
\* timeouts fire in the order the keydowns started them.
\* own: the timeout is one of the keydown that triggered last.
\* more: timeouts of other earlier keydowns are still pending.
FlashTimeout ==
  /\ Mounted
  /\ flashTimers.earlier \/ flashTimers.latest
  /\ triggeredHotcue' = Null
  /\ IF flashTimers.earlier
       THEN \E more \in {TRUE, FALSE} :
              flashTimers' = [flashTimers EXCEPT !.earlier = more]
       ELSE flashTimers' = NoFlash
  /\ last' = [op |-> "flashTimeout", own |-> ~flashTimers.earlier]
  /\ UNCHANGED <<shellVars, saveVars, storeVars, editingHotcue, playbackVars,
                 flushSync, sessionVars, seekVars>>

\* the keydown events of the model: an event on a text field, and events
\* elsewhere with each outcome of the player calls
KeyEvents ==
  {[key |-> key, isText |-> TRUE, valid |-> TRUE, thr |-> "none"] :
     key \in PressedKeys}
  \cup {[key |-> key, isText |-> FALSE, valid |-> TRUE, thr |-> thr] :
          key \in PressedKeys, thr \in Throws}
  \cup {[key |-> key, isText |-> FALSE, valid |-> FALSE, thr |-> "none"] :
          key \in PressedKeys}

\* ------------------------------------------------------ hotcue store, React
\* A render of the player that was not part of a handler's event
Render ==
  /\ Mounted
  /\ queue # << >>
  /\ LET r == rendered(queue, hotcues, hotcuesRef, hotcuesIsInitial)
     IN /\ hotcues' = r.state
        /\ hotcuesRef' = r.ref
        /\ hotcuesIsInitial' = r.isInitial
  /\ queue' = << >>
  /\ last' = [op |-> "render"]
  /\ UNCHANGED <<shellVars, saveVars, playbackVars, initialHotcuesRef,
                 editingHotcue, flushSync, flashVars, sessionVars, seekVars>>

\* clearHotcue deleting the key in place from the object the hotcues state
\* holds, which after a load or a discard is the Saved Snapshot itself
clearHotcueInPlace(key, eager) ==
  /\ Mounted
  /\ ~showUnsavedModal
  /\ Truthy(Field(hotcues, key))
  /\ Len(queue) < MaxPending
  /\ eager => queue = << >>
  /\ LET newHotcues == Remove(hotcues, key)
     IN commit(newHotcues,
               <<[kind |-> "value", value |-> newHotcues, same |-> FALSE]>>)
  /\ initialHotcuesRef' = IF hotcuesIsInitial
                            THEN Remove(initialHotcuesRef, key)
                            ELSE initialHotcuesRef
  /\ last' = [op |-> "clear", key |-> key]
  /\ UNCHANGED <<shellVars, saveVars, playbackVars, editingHotcue, flushSync, flashVars, sessionVars, seekVars>>

\* clearHotcue whose update stays buffered after the click: the updater,
\* and with it the assignment of hotcuesRef.current, waits for a later render
clearHotcueBuffered(key, eager) ==
  /\ Mounted
  /\ ~showUnsavedModal
  /\ Truthy(Field(hotcues, key))
  /\ Len(queue) < MaxPending
  /\ eager => queue = << >>
  /\ queue' = queue \o <<[kind |-> "clear", key |-> key]>>
  /\ last' = [op |-> "clear", key |-> key]
  /\ UNCHANGED <<shellVars, saveVars, playbackVars, initialHotcuesRef,
                 hotcues, hotcuesRef, hotcuesIsInitial,
                 editingHotcue, flushSync, flashVars, sessionVars, seekVars>>

\* clearHotcue(key), from the clear button of a rendered hotcue.  React runs
\* the updater inside setHotcues when the component has no pending update
\* (eager = TRUE), otherwise during the next render.
clearHotcue(key, eager) ==
  /\ Mounted
  /\ ~showUnsavedModal
  /\ Truthy(Field(hotcues, key))
  /\ Len(queue) < MaxPending
  /\ eager => queue = << >>
  /\ IF eager
       THEN LET newHotcues == Remove(hotcues, key)
            IN commit(newHotcues,
                      <<[kind |-> "value", value |-> newHotcues, same |-> FALSE]>>)
       ELSE commit(hotcuesRef, <<[kind |-> "clear", key |-> key]>>)
  /\ last' = [op |-> "clear", key |-> key]
  /\ UNCHANGED <<shellVars, saveVars, playbackVars, initialHotcuesRef,
                 editingHotcue, flushSync, flashVars, sessionVars, seekVars>>

\* handleHotcueLabelClick(key, hotcue) on the label of a rendered hotcue
handleHotcueLabelClick(key) ==
  /\ Mounted
  /\ ~showUnsavedModal
  /\ Truthy(Field(hotcues, key))
  /\ editingHotcue = Null
  /\ editingHotcue' = key
  /\ last' = [op |-> "labelClick", key |-> key]
  /\ UNCHANGED <<shellVars, saveVars, playbackVars, storeVars, flushSync, flashVars, sessionVars, seekVars>>

\* handleHotcueLabelBlur(key) with editingLabel = text (blur, or Enter)
handleHotcueLabelBlur(key, text) ==
  /\ Mounted
  /\ editingHotcue = key
  /\ Truthy(Field(hotcues, key))
  /\ Len(queue) < MaxPending
  /\ commit(IF Truthy(Field(hotcuesRef, key))
              THEN Put(hotcuesRef, key,
                       [type |-> "object", time |-> TimeOf(hotcuesRef[key]),
                        name |-> Str(Trim(text))])
              ELSE hotcuesRef,
            <<[kind |-> "label", key |-> key, text |-> text]>>)
  /\ editingHotcue' = Null
  /\ last' = [op |-> "label", key |-> key, text |-> text]
  /\ UNCHANGED <<shellVars, saveVars, playbackVars, initialHotcuesRef, flushSync, flashVars, sessionVars, seekVars>>

\* Escape in the label input (handleHotcueLabelKeyDown)
handleHotcueLabelEscape ==
  /\ Mounted
  /\ editingHotcue # Null
  /\ Truthy(Field(hotcues, editingHotcue))
  /\ editingHotcue' = Null
  /\ last' = [op |-> "labelEscape", key |-> editingHotcue]
  /\ UNCHANGED <<shellVars, saveVars, playbackVars, storeVars, flushSync, flashVars, sessionVars, seekVars>>

\* discardChanges emptying the store instead of restoring the snapshot
discardChangesToEmpty ==
  /\ Mounted
  /\ Len(queue) < MaxPending
  /\ commit(EmptyStore,
            <<[kind |-> "value", value |-> EmptyStore, same |-> FALSE]>>)
  /\ last' = [op |-> "discard"]
  /\ UNCHANGED <<shellVars, saveVars, playbackVars, initialHotcuesRef,
                 editingHotcue, flushSync, flashVars, sessionVars, seekVars>>

\* discardChanges(), exposed to the shell through the imperative handle
discardChanges ==
  /\ Mounted
  /\ Len(queue) < MaxPending
  /\ commit(initialHotcuesRef,
            <<[kind |-> "value", value |-> initialHotcuesRef, same |-> TRUE]>>)
  /\ last' = [op |-> "discard"]
  /\ UNCHANGED <<shellVars, saveVars, playbackVars, initialHotcuesRef,
                 editingHotcue, flushSync, flashVars, sessionVars, seekVars>>

\* ------------------------------------------------------------ player adapter
\* The player initialization effect, run when an instance mounts for a
\* video: with the IFrame API loaded it requests an animation frame for
\* initPlayer, otherwise it assigns window.onYouTubeIframeAPIReady and starts
\* the 100 ms readiness check.

\* what the cleanup of the initialization effect leaves behind when the
\* instance is torn down: it destroys playerRef.current only, and cancels
\* neither the animation frames nor the readiness-check interval
tornDown ==
  /\ leaked' = (leaked \/ players > 1)
  /\ timedOut' = FALSE
  /\ players' = 0
  /\ playerRef' = FALSE

\* the callbacks the torn-down instance leaves pending
leftPending ==
  (IF rafs > 0 THEN {"raf"} ELSE {})
    \cup (IF checkInterval THEN {"interval"} ELSE {})

\* the initialization effect of a new instance, after the cleanup of the
\* instance it replaces, if any
mountSession ==
  /\ tornDown
  /\ ytApi' = ytApi
  /\ apiCallback' = ~ytApi
  /\ checkInterval' = ~ytApi
  /\ rafs' = IF ytApi THEN 1 ELSE 0
  /\ stale' = (stale \cup leftPending) \ {"callback"}

\* the cleanup of the initialization effect when the instance unmounts
unmountSession ==
  /\ tornDown
  /\ ytApi' = ytApi
  /\ apiCallback' = FALSE
  /\ checkInterval' = FALSE
  /\ rafs' = 0
  /\ stale' = stale \cup leftPending
               \cup (IF apiCallback THEN {"callback"} ELSE {})

\* the component state of the progress track of a new instance
mountSeek ==
  /\ isDragging' = FALSE
  /\ dragTime' = 0
  /\ duration' = 0
  /\ currentTime' = 0
  /\ gesture' = NoGesture
  /\ UNCHANGED progressBarRef

\* the IFrame API script has loaded: window.YT.Player exists and the API
\* calls window.onYouTubeIframeAPIReady once, which may still be the
\* callback of a torn-down instance
YouTubeApiLoads ==
  /\ Mounted \/ "callback" \in stale
  /\ ~ytApi
  /\ ytApi' = TRUE
  /\ apiCallback' = FALSE
  /\ rafs' = IF apiCallback THEN rafs + 1 ELSE rafs
  /\ stale' = IF "callback" \in stale
                THEN (stale \ {"callback"}) \cup {"raf"} ELSE stale
  /\ last' = [op |-> "apiLoads"]
  /\ UNCHANGED <<shellVars, saveVars, storeVars, editingHotcue, playbackVars,
                 flushSync, flashVars, checkInterval, players, playerRef, timedOut,
                 leaked, seekVars>>

\* a tick of the readiness-check interval that finds the API loaded
CheckIntervalTick ==
  /\ Mounted
  /\ checkInterval
  /\ ytApi
  /\ checkInterval' = FALSE
  /\ rafs' = rafs + 1
  /\ last' = [op |-> "checkTick"]
  /\ UNCHANGED <<shellVars, saveVars, storeVars, editingHotcue, playbackVars,
                 flushSync, flashVars, ytApi, apiCallback, players, playerRef, timedOut,
                 leaked, stale, seekVars>>

\* the 10 s timeout that clears the readiness-check interval
CheckIntervalTimeout ==
  /\ Mounted
  /\ checkInterval
  /\ checkInterval' = FALSE
  /\ timedOut' = ~ytApi
  /\ last' = [op |-> "checkTimeout"]
  /\ UNCHANGED <<shellVars, saveVars, storeVars, editingHotcue, playbackVars,
                 flushSync, flashVars, ytApi, apiCallback, rafs, players, playerRef,
                 leaked, stale, seekVars>>

\* an animation frame runs initPlayer, which constructs a YT.Player on the
\* container and assigns it to playerRef.current
initPlayer ==
  /\ Mounted
  /\ rafs > 0
  /\ rafs' = rafs - 1
  /\ IF ytApi
       THEN /\ players' = players + 1
            /\ playerRef' = TRUE
       ELSE UNCHANGED <<players, playerRef>>
  /\ last' = [op |-> "initPlayer"]
  /\ UNCHANGED <<shellVars, saveVars, storeVars, editingHotcue, playbackVars,
                 flushSync, flashVars, ytApi, apiCallback, checkInterval, timedOut,
                 leaked, stale, seekVars>>

\* an animation frame of a torn-down instance runs its initPlayer, which
\* returns at once: the container ref of an unmounted instance is null
StaleAnimationFrame ==
  /\ "raf" \in stale
  /\ stale' = stale \ {"raf"}
  /\ last' = [op |-> "staleFrame"]
  /\ UNCHANGED <<shellVars, saveVars, storeVars, editingHotcue, playbackVars,
                 flushSync, flashVars, ytApi, apiCallback, checkInterval, rafs, players,
                 playerRef, timedOut, leaked, seekVars>>

\* a tick of the readiness-check interval of a torn-down instance that
\* finds the API loaded
StaleIntervalTick ==
  /\ "interval" \in stale
  /\ ytApi
  /\ stale' = (stale \ {"interval"}) \cup {"raf"}
  /\ last' = [op |-> "staleTick"]
  /\ UNCHANGED <<shellVars, saveVars, storeVars, editingHotcue, playbackVars,
                 flushSync, flashVars, ytApi, apiCallback, checkInterval, rafs, players,
                 playerRef, timedOut, leaked, seekVars>>

\* the 10 s timeout of a torn-down instance clears its interval
StaleIntervalTimeout ==
  /\ "interval" \in stale
  /\ stale' = stale \ {"interval"}
  /\ last' = [op |-> "staleTimeout"]
  /\ UNCHANGED <<shellVars, saveVars, storeVars, editingHotcue, playbackVars,
                 flushSync, flashVars, ytApi, apiCallback, checkInterval, rafs, players,
                 playerRef, timedOut, leaked, seekVars>>

\* onReady of a YouTube player of the mounted instance; d is what
\* getDuration() returns
onReady(d) ==
  /\ Mounted
  /\ playerRef
  /\ ~isPlayerReady
  /\ isPlayerReady' = TRUE
  /\ duration' = IF d > 0 THEN d ELSE duration
  /\ last' = [op |-> "onReady"]
  /\ UNCHANGED <<shellVars, saveVars, storeVars, editingHotcue, playerTime,
                 playing>>
  /\ UNCHANGED <<flushSync, flashVars, sessionVars, isDragging, dragTime, currentTime,
                 progressBarRef, gesture>>

\* playback, or the native controls, move the position
PlayerProgress(t) ==
  /\ Mounted
  /\ isPlayerReady
  /\ t # playerTime
  /\ playerTime' = t
  /\ last' = [op |-> "progress"]
  /\ UNCHANGED <<shellVars, saveVars, storeVars, editingHotcue, isPlayerReady,
                 playing>>
  /\ UNCHANGED <<flushSync, flashVars, sessionVars, seekVars>>

\* what a call of a player method gives a polling tick besides a value: the
\* method is missing (typeof is not 'function'), or the call throws
Missing == [type |-> "missing"]

Thrown == [type |-> "thrown"]

\* typeof v === 'number' && !isNaN(v)
IsValidNumber(v) == TypeOf(v) = "number" /\ ~IsNaN(v)

\* a polling tick that stores whatever number getCurrentTime() returns
TimeUpdateStoresNaN(time, dur) ==
  /\ Mounted
  /\ playerRef
  /\ isPlayerReady
  /\ currentTime' = IF TypeOf(time) = "number" THEN time.num ELSE currentTime
  /\ duration' = IF time # Thrown /\ IsValidNumber(dur) /\ dur.num > 0
                   THEN dur.num ELSE duration
  /\ last' = [op |-> "timeUpdate", time |-> time, dur |-> dur]
  /\ UNCHANGED <<shellVars, saveVars, storeVars, editingHotcue, playbackVars,
                 flushSync, flashVars, sessionVars, isDragging, dragTime, progressBarRef,
                 gesture>>

\* a tick of the 100 ms polling interval started once the player is ready:
\* it copies getCurrentTime() and getDuration() into the component state.
\* time, dur: what the two calls give.  A call that throws ends the tick.
TimeUpdate(time, dur) ==
  /\ Mounted
  /\ playerRef
  /\ isPlayerReady
  /\ currentTime' = IF IsValidNumber(time) THEN time.num ELSE currentTime
  /\ duration' = IF time # Thrown /\ IsValidNumber(dur) /\ dur.num > 0
                   THEN dur.num ELSE duration
  /\ last' = [op |-> "timeUpdate", time |-> time, dur |-> dur]
  /\ UNCHANGED <<shellVars, saveVars, storeVars, editingHotcue, playbackVars,
                 flushSync, flashVars, sessionVars, isDragging, dragTime, progressBarRef,
                 gesture>>

\* ------------------------------------------------------------ progress track
Max(a, b) == IF a >= b THEN a ELSE b

Min(a, b) == IF a <= b THEN a ELSE b

\* calculateSeekTime(clientX): the clamped fraction of the track width times
\* the duration (the durations of the model are multiples of the width)
calculateSeekTime(clientX) ==
  IF progressBarRef = NullV \/ duration = 0 THEN 0
  ELSE LET rect == progressBarRef
           clickX == clientX - rect.left
       IN (Max(0, Min(rect.width, clickX)) * duration) \div rect.width

\* mousedown on the track at clientX = x
handleProgressBarMouseDown(x) ==
  /\ Mounted
  /\ ~showUnsavedModal
  /\ gesture.phase \in {"idle", "done"}
  /\ LET active == playerRef /\ isPlayerReady /\ duration # 0
     IN /\ isDragging' = IF active THEN TRUE ELSE isDragging
        /\ dragTime' = IF active THEN calculateSeekTime(x) ELSE dragTime
        /\ gesture' = [phase |-> "down", x |-> x, moved |-> FALSE,
                       armed |-> active, cmds |-> << >>]
  /\ last' = [op |-> "mousedown"]
  /\ UNCHANGED <<shellVars, saveVars, storeVars, editingHotcue, playbackVars,
                 flushSync, flashVars, sessionVars, duration, currentTime, progressBarRef>>

\* mousemove on the document to clientX = x while the button is held; the
\* effect registers the document listeners only while isDragging
handleProgressBarMouseMove(x) ==
  /\ Mounted
  /\ gesture.phase = "down"
  /\ x # gesture.x
  /\ dragTime' = IF isDragging /\ duration # 0
                   THEN calculateSeekTime(x) ELSE dragTime
  /\ gesture' = [gesture EXCEPT !.x = x, !.moved = TRUE]
  /\ last' = [op |-> "mousemove"]
  /\ UNCHANGED <<shellVars, saveVars, storeVars, editingHotcue, playbackVars,
                 flushSync, flashVars, sessionVars, isDragging, duration, currentTime,
                 progressBarRef>>

\* handleProgressBarMouseUp that leaves the preview time of the drag in place
handleProgressBarMouseUpKeepsPreview ==
  /\ Mounted
  /\ gesture.phase = "down"
  /\ IF isDragging /\ playerRef /\ isPlayerReady
       THEN LET seekTime == calculateSeekTime(gesture.x)
            IN /\ isDragging' = FALSE
               /\ dragTime' = dragTime
               /\ currentTime' = seekTime
               /\ playerTime' = seekTime
               /\ gesture' = [gesture EXCEPT
                                !.phase = "up",
                                !.cmds = Append(@, SeekTo(Num(seekTime)))]
       ELSE /\ gesture' = [gesture EXCEPT !.phase = "up"]
            /\ UNCHANGED <<isDragging, dragTime, currentTime, playerTime>>
  /\ last' = [op |-> "mouseup"]
  /\ UNCHANGED <<shellVars, saveVars, storeVars, editingHotcue, isPlayerReady,
                 playing, flushSync, flashVars, sessionVars, duration, progressBarRef>>

\* mouseup on the document at the position the pointer has reached
handleProgressBarMouseUp ==
  /\ Mounted
  /\ gesture.phase = "down"
  /\ IF isDragging /\ playerRef /\ isPlayerReady
       THEN LET seekTime == calculateSeekTime(gesture.x)
            IN /\ isDragging' = FALSE
               /\ dragTime' = 0
               /\ currentTime' = seekTime
               /\ playerTime' = seekTime
               /\ gesture' = [gesture EXCEPT
                                !.phase = "up",
                                !.cmds = Append(@, SeekTo(Num(seekTime)))]
       ELSE /\ gesture' = [gesture EXCEPT !.phase = "up"]
            /\ UNCHANGED <<isDragging, dragTime, currentTime, playerTime>>
  /\ last' = [op |-> "mouseup"]
  /\ UNCHANGED <<shellVars, saveVars, storeVars, editingHotcue, isPlayerReady,
                 playing, flushSync, flashVars, sessionVars, duration, progressBarRef>>

\* handleProgressBarClick that does not test the duration
handleProgressBarClickAnyDuration ==
  /\ Mounted
  /\ gesture.phase = "up"
  /\ IF ~isDragging /\ playerRef /\ isPlayerReady
       THEN LET seekTime == calculateSeekTime(gesture.x)
            IN /\ currentTime' = seekTime
               /\ playerTime' = seekTime
               /\ gesture' = [gesture EXCEPT
                                !.phase = "done",
                                !.cmds = Append(@, SeekTo(Num(seekTime)))]
       ELSE /\ gesture' = [gesture EXCEPT !.phase = "done"]
            /\ UNCHANGED <<currentTime, playerTime>>
  /\ last' = [op |-> "click"]
  /\ UNCHANGED <<shellVars, saveVars, storeVars, editingHotcue, isPlayerReady,
                 playing, flushSync, flashVars, sessionVars, isDragging, dragTime,
                 duration, progressBarRef>>

\* the click the browser delivers to the track after the mouseup, at the
\* same position
handleProgressBarClick ==
  /\ Mounted
  /\ gesture.phase = "up"
  /\ IF ~isDragging /\ playerRef /\ isPlayerReady /\ duration # 0
       THEN LET seekTime == calculateSeekTime(gesture.x)
            IN /\ currentTime' = seekTime
               /\ playerTime' = seekTime
               /\ gesture' = [gesture EXCEPT
                                !.phase = "done",
                                !.cmds = Append(@, SeekTo(Num(seekTime)))]
       ELSE /\ gesture' = [gesture EXCEPT !.phase = "done"]
            /\ UNCHANGED <<currentTime, playerTime>>
  /\ last' = [op |-> "click"]
  /\ UNCHANGED <<shellVars, saveVars, storeVars, editingHotcue, isPlayerReady,
                 playing, flushSync, flashVars, sessionVars, isDragging, dragTime,
                 duration, progressBarRef>>

\* ------------------------------------------------------ save/dirty coordinator
\* Texts are sequences of tokens; '' is << >>.  a || b on two texts:
OrText(a, b) == IF a # << >> THEN a ELSE b

\* Array.prototype.join(', ')
RECURSIVE JoinComma(_)
JoinComma(fields) ==
  IF fields = << >> THEN << >>
  ELSE IF Len(fields) = 1 THEN fields
  ELSE <<Head(fields), ", ">> \o JoinComma(Tail(fields))

\* String.prototype.includes on a token
Includes(text, token) == \E i \in 1..Len(text) : text[i] = token

\* text of the message shown after a successful save
SavedText == <<"Video and hotcues saved successfully!">>

\* the text handleSave composes in its catch block for an axios error
\* [code, message, response]; response is NullV or [data, statusText], and a
\* field the body does not carry is absent from data
saveErrorMessageWithoutFields(error) ==
  <<"Failed to save video. ">> \o
  ( IF error.code \in {"ECONNREFUSED", "ERR_NETWORK"}
      THEN <<"Cannot connect to backend server. Is it running on port 3001?">>
    ELSE IF error.code = "ECONNABORTED" \/ Includes(error.message, "timeout")
      THEN <<"Request timed out. Please try again.">>
    ELSE IF error.response # NullV
      THEN LET errorData == error.response.data
               text(f) == IF f \in DOMAIN errorData THEN errorData[f] ELSE << >>
           IN OrText(text("error"),
                     OrText(text("details"), error.response.statusText))
                \o (IF text("type") # << >>
                      THEN <<" (">> \o text("type") \o <<")">>
                      ELSE << >>)
    ELSE OrText(error.message, <<"Unknown error occurred.">>) )

saveErrorMessage(error) ==
  <<"Failed to save video. ">> \o
  ( IF error.code \in {"ECONNREFUSED", "ERR_NETWORK"}
      THEN <<"Cannot connect to backend server. Is it running on port 3001?">>
    ELSE IF error.code = "ECONNABORTED" \/ Includes(error.message, "timeout")
      THEN <<"Request timed out. Please try again.">>
    ELSE IF error.response # NullV
      THEN LET errorData == error.response.data
               text(f) == IF f \in DOMAIN errorData THEN errorData[f] ELSE << >>
           IN OrText(text("error"),
                     OrText(text("details"), error.response.statusText))
                \o (IF "missingFields" \in DOMAIN errorData
                      THEN <<" Missing: ">> \o JoinComma(errorData.missingFields)
                      ELSE << >>)
                \o (IF text("type") # << >>
                      THEN <<" (">> \o text("type") \o <<")">>
                      ELSE << >>)
    ELSE OrText(error.message, <<"Unknown error occurred.">>) )

\* queued updates no longer hold the object of initialHotcuesRef once that
\* ref has been reassigned
forgetInitial(q) ==
  [i \in 1..Len(q) |->
     IF q[i].kind = "value" THEN [q[i] EXCEPT !.same = FALSE] ELSE q[i]]

\* handleSave (saveChanges of the imperative handle) up to its await: the request carries hotcuesRef.current.
\* closure: NullV, or the pendingAction/pendingVideo captured by the
\* handleUnsavedModalSave that awaits this call.
handleSave(closure) ==
  /\ isSaving' = TRUE
  /\ saveMessage' = NullV
  /\ messageTimer' = messageTimer
  /\ requests' = Append(requests, [payload |-> hotcuesRef, live |-> TRUE,
                                   closure |-> closure])

\* click on the Save button of the player (disabled while isSaving)
SaveButton ==
  /\ Mounted
  /\ ~showUnsavedModal
  /\ ~isSaving
  /\ youtubeUrl # Null
  /\ Len(requests) + Len(modalTimers) < MaxRequests
  /\ handleSave(NullV)
  /\ last' = [op |-> "save"]
  /\ UNCHANGED <<shellVars, storeVars, playbackVars, editingHotcue>>
  /\ UNCHANGED <<flushSync, flashVars, sessionVars, seekVars>>

without(q, i) == SubSeq(q, 1, i - 1) \o SubSeq(q, i + 1, Len(q))

\* the await of handleUnsavedModalSave resumes: setTimeout(..., 500)
resumeModalSave(req) ==
  modalTimers' = IF req.closure = NullV THEN modalTimers
                 ELSE Append(modalTimers, req.closure)

\* the POST of request i is answered with success
SaveSucceeds(i) ==
  /\ page = "main"
  /\ i \in 1..Len(requests)
  /\ LET req == requests[i]
     IN /\ requests' = without(requests, i)
        /\ resumeModalSave(req)
        /\ IF req.live
             THEN /\ initialHotcuesRef' = hotcuesRef
                  /\ hotcuesIsInitial' = FALSE
                  /\ queue' = forgetInitial(queue)
                  /\ isSaving' = FALSE
                  /\ saveMessage' = [type |-> "success", text |-> SavedText]
                  /\ messageTimer' = TRUE
                  /\ last' = [op |-> "saveOk", payload |-> req.payload]
             ELSE /\ UNCHANGED <<initialHotcuesRef, hotcuesIsInitial, queue,
                                 isSaving, saveMessage, messageTimer>>
                  /\ last' = [op |-> "staleSaveOk"]
  /\ UNCHANGED <<page, videoId, youtubeUrl, appHotcues, showUnsavedModal,
                 pendingVideo, pendingAction, hotcues, hotcuesRef,
                 playbackVars, editingHotcue>>
  /\ UNCHANGED <<flushSync, flashVars, sessionVars, seekVars>>

\* a failure path that records the live store as saved
SaveFailsAdvancesSnapshot(i, error) ==
  /\ page = "main"
  /\ i \in 1..Len(requests)
  /\ LET req == requests[i]
     IN /\ requests' = without(requests, i)
        /\ resumeModalSave(req)
        /\ isSaving' = IF req.live THEN FALSE ELSE isSaving
        /\ saveMessage' = IF req.live
                            THEN [type |-> "error",
                                  text |-> saveErrorMessage(error)]
                            ELSE saveMessage
        /\ initialHotcuesRef' = IF req.live THEN hotcuesRef
                                ELSE initialHotcuesRef
        /\ last' = IF req.live
                     THEN [op |-> "saveFail", error |-> error]
                     ELSE [op |-> "staleSaveFail"]
  /\ UNCHANGED <<page, videoId, youtubeUrl, appHotcues, showUnsavedModal,
                 pendingVideo, pendingAction, hotcues, hotcuesRef,
                 hotcuesIsInitial, queue, playbackVars, editingHotcue>>
  /\ UNCHANGED <<messageTimer, flushSync, flashVars, sessionVars, seekVars>>

\* the POST of request i fails with the axios error `error`: the catch and
\* finally blocks of handleSave
SaveFails(i, error) ==
  /\ page = "main"
  /\ i \in 1..Len(requests)
  /\ LET req == requests[i]
     IN /\ requests' = without(requests, i)
        /\ resumeModalSave(req)
        /\ isSaving' = IF req.live THEN FALSE ELSE isSaving
        /\ saveMessage' = IF req.live
                            THEN [type |-> "error",
                                  text |-> saveErrorMessage(error)]
                            ELSE saveMessage
        /\ last' = IF req.live
                     THEN [op |-> "saveFail", error |-> error]
                     ELSE [op |-> "staleSaveFail"]
  /\ UNCHANGED <<page, videoId, youtubeUrl, appHotcues, showUnsavedModal,
                 pendingVideo, pendingAction, storeVars, playbackVars,
                 editingHotcue>>
  /\ UNCHANGED <<messageTimer, flushSync, flashVars, sessionVars, seekVars>>

\* a 5 s timeout started by a successful save fires: setSaveMessage(null).
\* more: another such timeout, of a later successful save, is still pending
ClearSaveMessage ==
  /\ Mounted
  /\ messageTimer
  /\ saveMessage' = NullV
  /\ \E more \in {TRUE, FALSE} : messageTimer' = more
  /\ last' = [op |-> "clearMessage"]
  /\ UNCHANGED <<shellVars, storeVars, playbackVars, editingHotcue, isSaving,
                 requests, flushSync, flashVars, sessionVars, seekVars>>

\* -------------------------------------------------------------- MainApp
\* requests of an instance that is unmounted keep running, detached
detach(q) == [i \in 1..Len(q) |-> [q[i] EXCEPT !.live = FALSE]]

\* setVideoId/setYoutubeUrl/setHotcues of MainApp followed by the render:
\* key={videoId} remounts the player when the video changes; for the same
\* video a new initialHotcues object re-runs the load effect of the player.
\* fresh: the hotcues object differs from the one passed before.
ShowVideo(id, url, raw, fresh) ==
  /\ videoId' = id
  /\ youtubeUrl' = url
  /\ appHotcues' = raw
  /\ IF id # videoId \/ id = Null THEN
       /\ hotcues' = normalizeHotcues(raw)
       /\ hotcuesRef' = normalizeHotcues(raw)
       /\ initialHotcuesRef' = normalizeHotcues(raw)
       /\ hotcuesIsInitial' = TRUE
       /\ queue' = << >>
       /\ editingHotcue' = Null
       /\ isPlayerReady' = FALSE
       /\ playerTime' = 0
       /\ playing' = FALSE
       /\ isSaving' = FALSE
       /\ saveMessage' = NullV
       /\ messageTimer' = FALSE
       /\ requests' = detach(requests)
       /\ IF id = Null THEN unmountSession ELSE mountSession
       /\ mountSeek
       /\ triggeredHotcue' = Null
       /\ flashTimers' = NoFlash
     ELSE IF fresh \/ raw # appHotcues THEN
       /\ hotcues' = normalizeHotcues(raw)
       /\ hotcuesRef' = normalizeHotcues(raw)
       /\ initialHotcuesRef' = normalizeHotcues(raw)
       /\ hotcuesIsInitial' = TRUE
       /\ queue' = << >>
       /\ UNCHANGED <<editingHotcue, playbackVars, saveVars, sessionVars,
                      seekVars, flashVars>>
     ELSE
       UNCHANGED <<storeVars, editingHotcue, playbackVars, saveVars,
                   sessionVars, seekVars, flashVars>>

\* playerRef.current && playerRef.current.hasUnsavedChanges()
playerHasUnsavedChanges == Mounted /\ hasUnsavedChanges

OrEmpty(raw) == IF Truthy(raw) THEN raw ELSE EmptyStore

OrNull(raw) == IF Truthy(raw) THEN raw ELSE NullV

\* handleVideoSelect(video): a click on a sidebar entry, or null from the
\* sidebar after the selected video was deleted
handleVideoSelect(video, fresh) ==
  /\ page = "main"
  /\ video # NullV => ~showUnsavedModal
  /\ IF video = NullV THEN
       IF playerHasUnsavedChanges THEN
         /\ pendingVideo' = NullV
         /\ pendingAction' = "select"
         /\ showUnsavedModal' = TRUE
         /\ last' = [op |-> "select", blocked |-> TRUE]
         /\ UNCHANGED <<videoId, youtubeUrl, appHotcues, storeVars,
                        playbackVars, saveVars, editingHotcue,
                        sessionVars, seekVars, flashVars>>
       ELSE
         /\ ShowVideo(Null, Null, NullV, TRUE)
         /\ last' = [op |-> "select", blocked |-> FALSE]
         /\ UNCHANGED <<pendingVideo, pendingAction, showUnsavedModal>>
     ELSE
       IF video.videoId # videoId /\ playerHasUnsavedChanges THEN
         /\ pendingVideo' = video
         /\ pendingAction' = "select"
         /\ showUnsavedModal' = TRUE
         /\ last' = [op |-> "select", blocked |-> TRUE]
         /\ UNCHANGED <<videoId, youtubeUrl, appHotcues, storeVars,
                        playbackVars, saveVars, editingHotcue,
                        sessionVars, seekVars, flashVars>>
       ELSE
         /\ ShowVideo(video.videoId, video.youtubeUrl, OrEmpty(video.hotcues), fresh)
         /\ last' = [op |-> "select", blocked |-> FALSE]
         /\ UNCHANGED <<pendingVideo, pendingAction, showUnsavedModal>>
  /\ UNCHANGED <<page, modalTimers>>
  /\ UNCHANGED flushSync

\* handleVideoSubmit(id, url) from the URL form
handleVideoSubmit(id) ==
  /\ page = "main"
  /\ IF playerHasUnsavedChanges THEN
       /\ pendingVideo' = VideoRecord(id, NullV)
       /\ pendingAction' = "navigate"
       /\ showUnsavedModal' = TRUE
       /\ last' = [op |-> "submit", blocked |-> TRUE]
       /\ UNCHANGED <<videoId, youtubeUrl, appHotcues, storeVars,
                      playbackVars, saveVars, editingHotcue,
                        sessionVars, seekVars, flashVars>>
     ELSE
       /\ ShowVideo(id, id, NullV, FALSE)
       /\ last' = [op |-> "submit", blocked |-> FALSE]
       /\ UNCHANGED <<pendingVideo, pendingAction, showUnsavedModal>>
  /\ UNCHANGED <<page, modalTimers>>
  /\ UNCHANGED flushSync

\* handleUnsavedModalSave: the Save button of the unsaved-changes modal.
\* handleSave catches every failure itself, so the awaited saveChanges()
\* never rejects.
handleUnsavedModalSave ==
  /\ page = "main"
  /\ showUnsavedModal
  /\ Mounted
  /\ Len(requests) + Len(modalTimers) < MaxRequests
  /\ handleSave([pendingAction |-> pendingAction, pendingVideo |-> pendingVideo])
  /\ last' = [op |-> "modalSave"]
  /\ UNCHANGED <<shellVars, storeVars, playbackVars, editingHotcue>>
  /\ UNCHANGED <<flushSync, flashVars, sessionVars, seekVars>>

\* handleUnsavedModalCancel: the Cancel button of the modal
handleUnsavedModalCancel ==
  /\ page = "main"
  /\ showUnsavedModal
  /\ showUnsavedModal' = FALSE
  /\ pendingVideo' = NullV
  /\ pendingAction' = Null
  /\ last' = [op |-> "modalCancel"]
  /\ UNCHANGED <<page, videoId, youtubeUrl, appHotcues, modalTimers,
                 storeVars, playbackVars, saveVars, editingHotcue>>
  /\ UNCHANGED <<flushSync, flashVars, sessionVars, seekVars>>

\* the 500 ms timeout of handleUnsavedModalSave fires, with the
\* pendingAction and pendingVideo its closure captured
ModalTimeout(fresh) ==
  /\ page = "main"
  /\ modalTimers # << >>
  /\ modalTimers' = Tail(modalTimers)
  /\ showUnsavedModal' = FALSE
  /\ pendingVideo' = NullV
  /\ pendingAction' = Null
  /\ LET c == Head(modalTimers)
     IN IF c.pendingAction = "select" /\ Truthy(c.pendingVideo) THEN
          ShowVideo(c.pendingVideo.videoId, c.pendingVideo.youtubeUrl,
                    OrEmpty(c.pendingVideo.hotcues), fresh)
        ELSE IF c.pendingAction = "navigate" /\ Truthy(c.pendingVideo) THEN
          ShowVideo(c.pendingVideo.videoId, c.pendingVideo.youtubeUrl,
                    OrNull(c.pendingVideo.hotcues), fresh)
        ELSE
          UNCHANGED <<videoId, youtubeUrl, appHotcues, storeVars, playbackVars,
                      saveVars, editingHotcue,
                        sessionVars, seekVars, flashVars>>
  /\ last' = [op |-> "modalTimeout"]
  /\ UNCHANGED page
  /\ UNCHANGED flushSync

\* handleLogout: the Logout button; navigate('/login') unmounts MainApp
handleLogout ==
  /\ page = "main"
  /\ ~showUnsavedModal
  /\ page' = "login"
  /\ last' = [op |-> "logout"]
  /\ UNCHANGED <<videoId, youtubeUrl, appHotcues, showUnsavedModal,
                 pendingVideo, pendingAction, modalTimers, storeVars,
                 playbackVars, saveVars, editingHotcue>>
  /\ UNCHANGED <<flushSync, flashVars, sessionVars, seekVars>>

\* handleBeforeUnload asking for the confirmation whenever a player is mounted
handleBeforeUnloadAnyPlayer ==
  /\ last' = [op |-> "beforeunload", prompted |-> Mounted]
  /\ UNCHANGED <<shellVars, storeVars, playbackVars, saveVars, editingHotcue,
                 flushSync, sessionVars, seekVars, flashVars>>

\* handleBeforeUnload of MainApp on a beforeunload event of the window:
\* playerRef.current is the handle of the mounted player, null without one.
\* prompted: the handler called e.preventDefault() and set e.returnValue to
\* its text.  The page stays (the user declines to leave, or nothing asked).
handleBeforeUnload ==
  /\ last' = [op |-> "beforeunload",
              prompted |-> Mounted /\ hasUnsavedChanges]
  /\ UNCHANGED <<shellVars, storeVars, playbackVars, saveVars, editingHotcue,
                 flushSync, sessionVars, seekVars, flashVars>>

\* ------------------------------------------------------------ specification
\* axios errors of a failed POST /videos
NetworkError ==
  [code |-> "ERR_NETWORK", message |-> <<"Network Error">>, response |-> NullV]

TimeoutError ==
  [code |-> "ECONNABORTED", message |-> <<"timeout", " of 10000ms exceeded">>,
   response |-> NullV]

ServerError(data) ==
  [code |-> "ERR_BAD_REQUEST",
   message |-> <<"Request failed with status code 400">>,
   response |-> [data |-> data, statusText |-> <<"Bad Request">>]]

GenericError(message) ==
  [code |-> "ERR_UNKNOWN", message |-> message, response |-> NullV]

\* bodies of an error response
ErrorBodies ==
  { [error |-> <<"Invalid data">>, missingFields |-> <<"youtubeUrl">>],
    [error |-> <<"Invalid data">>,
     missingFields |-> <<"youtubeUrl", "videoId">>],
    [error |-> <<"Database error">>, type |-> <<"DB">>],
    [details |-> <<"no username">>] }

SaveErrors ==
  {NetworkError, TimeoutError, GenericError(<< >>),
   GenericError(<<"socket hang up">>)}
    \cup {ServerError(data) : data \in ErrorBodies}

Bools == {TRUE, FALSE}

\* initialHotcues changes for the mounted video (the parent passes another
\* hotcues object): the load effect runs again
initialHotcuesChange(raw) ==
  /\ Mounted
  /\ ~showUnsavedModal
  /\ ShowVideo(videoId, youtubeUrl, raw, TRUE)
  /\ last' = [op |-> "load"]
  /\ UNCHANGED <<page, showUnsavedModal, pendingVideo, pendingAction,
                 modalTimers, flushSync, flashVars>>

\* saveChanges() called through the imperative handle
saveChanges ==
  /\ Mounted
  /\ Len(requests) + Len(modalTimers) < MaxRequests
  /\ handleSave(NullV)
  /\ last' = [op |-> "save"]
  /\ UNCHANGED <<shellVars, storeVars, playbackVars, editingHotcue, flushSync, flashVars, sessionVars, seekVars>>

\* a player mounted for video v1 with each hotcues object a record can carry
InitPlayer ==
  /\ page = "main"
  /\ videoId = "v1"
  /\ youtubeUrl = "v1"
  /\ appHotcues \in {OrEmpty(h) : h \in RecordHotcues} \cup {NullV}
  /\ showUnsavedModal = FALSE
  /\ pendingVideo = NullV
  /\ pendingAction = Null
  /\ modalTimers = << >>
  /\ hotcues = normalizeHotcues(appHotcues)
  /\ hotcuesRef = normalizeHotcues(appHotcues)
  /\ initialHotcuesRef = normalizeHotcues(appHotcues)
  /\ hotcuesIsInitial = TRUE
  /\ queue = << >>
  /\ editingHotcue = Null
  /\ isPlayerReady = FALSE
  /\ playerTime = 0
  /\ playing = FALSE
  /\ isSaving = FALSE
  /\ saveMessage = NullV
  /\ messageTimer = FALSE
  /\ requests = << >>
  /\ flushSync = TRUE
  /\ OneSession
  /\ isDragging = FALSE
  /\ dragTime = 0
  /\ duration = 0
  /\ currentTime = 0
  /\ progressBarRef = NullV
  /\ gesture = NoGesture
  /\ triggeredHotcue = Null
  /\ flashTimers = NoFlash
  /\ last = [op |-> "init"]

\* The application: MainApp and the player it mounts.  The user sets, jumps
\* to and clears the hotcue of one letter, saves, selects and submits
\* videos, answers the unsaved-changes modal and logs out.  The IFrame API is
\* loaded; its loading is the subject of SpecSession and SpecLifecycle.
AppKeyEvents ==
  {e \in KeyEvents : e.key = "q" /\ ~e.isText /\ e.valid /\ e.thr = "none"}

AppRecords == {VideoRecord(v, h) : v \in Videos, h \in {NullV, [x \in {"q"} |-> Num(1)]}}

\* the user starts a save only when none is awaiting its response or the
\* switch that follows it
NoSavePending == requests = << >> /\ modalTimers = << >>

Next ==
  \/ \E e \in AppKeyEvents : KeyDown(e.key, e.isText, e.valid, e.thr)
  \/ clearHotcue("q", TRUE)
  \/ initPlayer
  \/ onReady(VideoDuration)
  \/ NoSavePending /\ SaveButton
  \/ \E i \in 1..MaxRequests : SaveSucceeds(i)
  \/ \E i \in 1..MaxRequests : SaveFails(i, NetworkError)
  \/ \E video \in AppRecords \cup {NullV}, fresh \in Bools :
       handleVideoSelect(video, fresh)
  \/ \E id \in Videos : handleVideoSubmit(id)
  \/ NoSavePending /\ handleUnsavedModalSave
  \/ handleUnsavedModalCancel
  \/ \E fresh \in Bools : ModalTimeout(fresh)
  \/ handleLogout

Spec == InitLoaded /\ [][Next]_vars

\* The keyboard dispatcher of a mounted player: every keydown event of the
\* model with each outcome of the player calls, the clear control that
\* empties a slot for the next set, and the playback position advancing.
\* The label controls and discardChanges are the subject of SpecStore.
NextPlayer ==
  \/ \E e \in KeyEvents : KeyDown(e.key, e.isText, e.valid, e.thr)
  \/ \E key \in ClickedKeys, eager \in Bools : clearHotcue(key, eager)
  \/ onReady(VideoDuration)
  \/ \E t \in Times : PlayerProgress(t)

SpecPlayer == InitPlayer /\ [][NextPlayer]_vars

\* The save/dirty coordinator of a mounted player: edits of the hotcue of
\* one letter, saves through the button and the imperative handle with
\* their responses, discardChanges, and reloads of initialHotcues.
SaveKeyEvents ==
  {e \in KeyEvents : e.key = "q" /\ ~e.isText /\ e.valid /\ e.thr = "none"}

NextSave ==
  \/ \E e \in SaveKeyEvents : KeyDown(e.key, e.isText, e.valid, e.thr)
  \/ \E eager \in Bools : clearHotcue("q", eager)
  \/ handleHotcueLabelClick("q")
  \/ \E text \in LabelTexts : handleHotcueLabelBlur("q", text)
  \/ discardChanges
  \/ onReady(VideoDuration)
  \/ \E t \in Times : PlayerProgress(t)
  \/ SaveButton
  \/ saveChanges
  \/ \E i \in 1..MaxRequests : SaveSucceeds(i)
  \/ \E i \in 1..MaxRequests : SaveFails(i, NetworkError)
  \/ \E raw \in RecordHotcues : requests = << >> /\ initialHotcuesChange(raw)

SpecSave == InitPlayer /\ [][NextSave]_vars

\* The messages of the save button: saves of a store the user edits by
\* keyboard, answered with success or with each kind of failure.
NextSaveMessage ==
  \/ \E e \in SaveKeyEvents : KeyDown(e.key, e.isText, e.valid, e.thr)
  \/ onReady(VideoDuration)
  \/ SaveButton
  \/ \E i \in 1..MaxRequests : SaveSucceeds(i)
  \/ \E i \in 1..MaxRequests, error \in SaveErrors : SaveFails(i, error)
  \/ ClearSaveMessage

SpecSaveMessage == InitPlayer /\ [][NextSaveMessage]_vars

\* The same, with the scheduling the runtime guarantees: a pending timeout
\* fires and a request in flight gets its response; the user is free not to
\* act.
SpecSaveMessageFair ==
  /\ SpecSaveMessage
  /\ WF_vars(ClearSaveMessage)
  /\ WF_vars(\E i \in 1..MaxRequests :
               SaveSucceeds(i) \/ \E error \in SaveErrors : SaveFails(i, error))


\* the letters of the stores the pure functions are applied to
DirtyKeys == {"q", "w"}

\* The player session of a mounted instance: the initialization of the
\* YouTube player from the mount on, its readiness and polling, and pointer
\* interactions on the progress track.
Durations == {0, VideoDuration}

\* Position and duration polling of a ready player: playback moves the
\* position, and each tick of the interval reads a position and a duration
\* that may be missing, thrown, not a number, NaN or not positive.
BadPolls == {NaN, Undefined, Str(<<"a">>), Missing, Thrown}

PolledDurations == {Num(d) : d \in Durations \cup {-1}} \cup BadPolls

NextPolling ==
  \/ \E d \in Durations : onReady(d)
  \/ \E t \in Times : PlayerProgress(t)
  \/ \E time \in {Num(playerTime)} \cup BadPolls, dur \in PolledDurations :
       TimeUpdate(time, dur)

SpecPolling == InitPlayer /\ [][NextPolling]_vars

\* The hotcue store and its mirror: keyboard sets and jumps whose player
\* calls succeed, the clear and label controls, and discardChanges, in every
\* order.
StoreKeyEvents ==
  {e \in KeyEvents : ~e.isText /\ e.valid /\ e.thr = "none"}

NextStore ==
  \/ \E e \in StoreKeyEvents : KeyDown(e.key, e.isText, e.valid, e.thr)
  \/ \E key \in ClickedKeys, eager \in Bools : clearHotcue(key, eager)
  \/ \E key \in ClickedKeys : handleHotcueLabelClick(key)
  \/ \E key \in ClickedKeys, text \in LabelTexts : handleHotcueLabelBlur(key, text)
  \/ handleHotcueLabelEscape
  \/ discardChanges
  \/ onReady(VideoDuration)

SpecStore == InitPlayer /\ [][NextStore]_vars

\* Leaving the page: the user edits the hotcue of one letter, selects videos
\* and clears the selection, dismisses the modal, logs out, and the browser
\* raises beforeunload at any moment.
NextUnload ==
  \/ \E e \in AppKeyEvents : KeyDown(e.key, e.isText, e.valid, e.thr)
  \/ clearHotcue("q", TRUE)
  \/ initPlayer
  \/ onReady(VideoDuration)
  \/ \E video \in AppRecords \cup {NullV} : handleVideoSelect(video, FALSE)
  \/ handleUnsavedModalCancel
  \/ handleLogout
  \/ handleBeforeUnload

SpecUnload == InitLoaded /\ [][NextUnload]_vars

\* What is sent to the backend: a player whose video is loaded with each
\* kind of stored hotcues (legacy bare numbers, {time, name} objects, an
\* object whose name is not a string, an entry under a key that is not a
\* letter), edited by keyboard and label, and saved.
StoredHotcues ==
  { NullV,
    [x \in {"q"} |-> Num(1)],
    [x \in {"q"} |-> Hotcue(0, <<"a">>)],
    [x \in {"q"} |-> [type |-> "object", time |-> Num(1), name |-> Num(1)]],
    [x \in {"w"} |-> Num(0)],
    [x \in {"1"} |-> Num(0)] }

NextPayload ==
  \/ \E e \in SaveKeyEvents : KeyDown(e.key, e.isText, e.valid, e.thr)
  \/ handleHotcueLabelClick("q")
  \/ \E text \in LabelTexts : handleHotcueLabelBlur("q", text)
  \/ onReady(VideoDuration)
  \/ SaveButton
  \/ \E i \in 1..MaxRequests : SaveSucceeds(i)
  \/ \E i \in 1..MaxRequests : SaveFails(i, NetworkError)
  \/ \E raw \in StoredHotcues : requests = << >> /\ initialHotcuesChange(raw)

SpecPayload == InitPlayer /\ [][NextPayload]_vars

\* The flash of a triggered hotcue: the user sets and jumps to hotcues while
\* the 250 ms timeouts of earlier keydowns fire.
FlashKeyEvents ==
  {e \in KeyEvents : ~e.isText /\ e.thr \in {"none", "getCurrentTime"}}

NextFlash ==
  \/ \E e \in FlashKeyEvents : KeyDown(e.key, e.isText, e.valid, e.thr)
  \/ \E key \in ClickedKeys, eager \in Bools : clearHotcue(key, eager)
  \/ onReady(VideoDuration)
  \/ FlashTimeout

SpecFlash == InitPlayer /\ [][NextFlash]_vars

\* The life of player instances: MainApp mounts, replaces and unmounts the
\* player while the IFrame API loads, the readiness wait runs, the callbacks
\* of torn-down instances fire, and the user presses keys.
LifecycleKeyEvents ==
  {e \in KeyEvents : ~e.isText /\ e.valid /\ e.thr = "none"}

NextLifecycle ==
  \/ \E e \in LifecycleKeyEvents : KeyDown(e.key, e.isText, e.valid, e.thr)
  \/ \E video \in AppRecords \cup {NullV} : handleVideoSelect(video, FALSE)
  \/ \E id \in Videos : handleVideoSubmit(id)
  \/ handleUnsavedModalCancel
  \/ YouTubeApiLoads
  \/ CheckIntervalTick
  \/ CheckIntervalTimeout
  \/ initPlayer
  \/ onReady(VideoDuration)
  \/ StaleAnimationFrame
  \/ StaleIntervalTick
  \/ StaleIntervalTimeout

SpecLifecycle == Init /\ [][NextLifecycle]_vars

InitSession ==
  /\ page = "main"
  /\ videoId = "v1"
  /\ youtubeUrl = "v1"
  /\ appHotcues = NullV
  /\ showUnsavedModal = FALSE
  /\ pendingVideo = NullV
  /\ pendingAction = Null
  /\ modalTimers = << >>
  /\ hotcues = EmptyStore
  /\ hotcuesRef = EmptyStore
  /\ initialHotcuesRef = EmptyStore
  /\ hotcuesIsInitial = TRUE
  /\ queue = << >>
  /\ editingHotcue = Null
  /\ isPlayerReady = FALSE
  /\ playerTime = 0
  /\ playing = FALSE
  /\ isSaving = FALSE
  /\ saveMessage = NullV
  /\ messageTimer = FALSE
  /\ requests = << >>
  /\ flushSync = TRUE
  /\ ytApi \in Bools
  /\ apiCallback = ~ytApi
  /\ checkInterval = ~ytApi
  /\ rafs = IF ytApi THEN 1 ELSE 0
  /\ players = 0
  /\ playerRef = FALSE
  /\ timedOut = FALSE
  /\ leaked = FALSE
  /\ stale = {}
  /\ isDragging = FALSE
  /\ dragTime = 0
  /\ duration = 0
  /\ currentTime = 0
  /\ progressBarRef \in {NullV, TrackRect}
  /\ gesture = NoGesture
  /\ triggeredHotcue = Null
  /\ flashTimers = NoFlash
  /\ last = [op |-> "init"]

NextSession ==
  \/ YouTubeApiLoads
  \/ CheckIntervalTick
  \/ CheckIntervalTimeout
  \/ initPlayer
  \/ \E d \in Durations : onReady(d)
  \/ \E d \in Durations :
       /\ TimeUpdate(Num(playerTime), Num(d))
       /\ currentTime' # currentTime \/ duration' # duration
  \/ \E t \in Times : PlayerProgress(t)
  \/ \E x \in ClientXs : handleProgressBarMouseDown(x)
  \/ \E x \in ClientXs : handleProgressBarMouseMove(x)
  \/ handleProgressBarMouseUp
  \/ handleProgressBarClick
  \/ \E id \in Videos : handleVideoSubmit(id)
  \/ StaleAnimationFrame
  \/ StaleIntervalTick
  \/ StaleIntervalTimeout

SpecSession == InitSession /\ [][NextSession]_vars

\* normalizeHotcues on its own: a player mounted with, and then passed,
\* every initialHotcues value over two letters whose entries are bare
\* numbers, {time, name} objects or malformed values.
RawValues ==
  { Num(0), Num(1), Num(-1), NaN, Str(<<"a">>), NullV, Undefined,
    [type |-> "object"],
    [type |-> "object", time |-> Str(<<"a">>), name |-> Str(<<"a">>)],
    [type |-> "object", time |-> Num(1)],
    [type |-> "object", time |-> Num(0), name |-> NullV],
    [type |-> "object", time |-> Num(1), name |-> Str(<< >>)],
    [type |-> "object", time |-> Num(0), name |-> Str(<<"a">>)] }

RawInputs ==
  {NullV, Undefined}
    \cup UNION {[keys -> RawValues] : keys \in SUBSET DirtyKeys}

InitNormalize ==
  /\ page = "main"
  /\ videoId = "v1"
  /\ youtubeUrl = "v1"
  /\ appHotcues \in RawInputs
  /\ showUnsavedModal = FALSE
  /\ pendingVideo = NullV
  /\ pendingAction = Null
  /\ modalTimers = << >>
  /\ hotcues = normalizeHotcues(appHotcues)
  /\ hotcuesRef = normalizeHotcues(appHotcues)
  /\ initialHotcuesRef = normalizeHotcues(appHotcues)
  /\ hotcuesIsInitial = TRUE
  /\ queue = << >>
  /\ editingHotcue = Null
  /\ isPlayerReady = FALSE
  /\ playerTime = 0
  /\ playing = FALSE
  /\ isSaving = FALSE
  /\ saveMessage = NullV
  /\ messageTimer = FALSE
  /\ requests = << >>
  /\ flushSync = TRUE
  /\ OneSession
  /\ isDragging = FALSE
  /\ dragTime = 0
  /\ duration = 0
  /\ currentTime = 0
  /\ progressBarRef = NullV
  /\ gesture = NoGesture
  /\ triggeredHotcue = Null
  /\ flashTimers = NoFlash
  /\ last = [op |-> "init"]

NextNormalize == \E raw \in RawInputs : initialHotcuesChange(raw)

SpecNormalize == InitNormalize /\ [][NextNormalize]_vars

\* The change detector on its own: every pair of a live Hotcue Set and a
\* Saved Snapshot over two letters, and the shell's call of
\* hasUnsavedChanges() on it.
Names == {Trim(text) : text \in LabelTexts}

AllStores ==
  UNION {[keys -> {Hotcue(t, n) : t \in Times, n \in Names}] :
           keys \in SUBSET DirtyKeys}

hasUnsavedChangesCall ==
  /\ Mounted
  /\ last.op = "init"
  /\ last' = [op |-> "hasUnsavedChanges", result |-> hasUnsavedChanges]
  /\ UNCHANGED <<shellVars, storeVars, editingHotcue, playbackVars,
                 saveVars, flushSync, flashVars, sessionVars, seekVars>>

InitDirty ==
  /\ page = "main"
  /\ videoId = "v1"
  /\ youtubeUrl = "v1"
  /\ appHotcues = NullV
  /\ showUnsavedModal = FALSE
  /\ pendingVideo = NullV
  /\ pendingAction = Null
  /\ modalTimers = << >>
  /\ hotcuesRef \in AllStores
  /\ hotcues = hotcuesRef
  /\ initialHotcuesRef \in AllStores
  /\ hotcuesIsInitial = FALSE
  /\ queue = << >>
  /\ editingHotcue = Null
  /\ isPlayerReady = FALSE
  /\ playerTime = 0
  /\ playing = FALSE
  /\ isSaving = FALSE
  /\ saveMessage = NullV
  /\ messageTimer = FALSE
  /\ requests = << >>
  /\ flushSync = TRUE
  /\ OneSession
  /\ isDragging = FALSE
  /\ dragTime = 0
  /\ duration = 0
  /\ currentTime = 0
  /\ progressBarRef = NullV
  /\ gesture = NoGesture
  /\ triggeredHotcue = Null
  /\ flashTimers = NoFlash
  /\ last = [op |-> "init"]

NextDirty == hasUnsavedChangesCall

SpecDirty == InitDirty /\ [][NextDirty]_vars

TypeOK ==
  /\ page \in {"main", "login"}
  /\ videoId \in Videos \cup {Null}
  /\ Len(queue) <= MaxPending
  /\ Len(requests) <= MaxRequests

\* ================================================================== claims
IsSeekOrPlay(c) == c.cmd \in {"seekTo", "playVideo"}

\* the first run of handleKeyPress for the last keydown wrote a new hotcue
SetByLast(l) == l.op = "keydown" /\ l.branches[1] = "set" /\ ~l.threws[1]

\* C1: one keydown of a hotcue letter that has no entry (target not a text
\* field, player ready, getCurrentTime valid) adds exactly the entry
\* key -> {time: t, name: ''} and issues no seekTo and no playVideo.
C1_SetIssuesNoSeekOrPlay ==
  [][SetByLast(last') =>
       /\ hotcuesRef' = Put(hotcuesRef, last'.key, Hotcue(playerTime, << >>))
       /\ \A i \in 1..Len(last'.cmds) : ~IsSeekOrPlay(last'.cmds[i])]_vars

\* the last keydown found an entry for its key with the player ready
JumpByLast(l) == l.op = "keydown" /\ l.branches[1] = "jump"

\* C2: a keydown of a key that has an entry, with the player ready, leaves
\* the Hotcue Set unchanged and, when the player calls succeed, issues
\* seekTo(entry.time) followed by playVideo; no keydown of a key that has an
\* entry changes the Hotcue Set.
C2_JumpKeepsStore ==
  [][last'.op = "keydown" /\ last'.key \in DOMAIN hotcuesRef =>
       /\ hotcuesRef' = hotcuesRef
       /\ (JumpByLast(last') /\ ~last'.threws[1] /\ ~last'.threws[2]) =>
            /\ Len(last'.cmds) >= 2
            /\ \A i \in 1..Len(last'.cmds) :
                 last'.cmds[i] = IF i % 2 = 1
                                   THEN SeekTo(TimeOf(hotcuesRef[last'.key]))
                                   ELSE PlayVideo]_vars

\* a jump to a labelled hotcue while another position is playing
C2_Witness ==
  /\ JumpByLast(last)
  /\ ~last.threws[1] /\ ~last.threws[2]
  /\ Len(last.cmds) >= 2
  /\ \E key \in DOMAIN hotcuesRef : NameOf(hotcuesRef[key]) # Str(<< >>)
  /\ hotcuesRef # initialHotcuesRef

\* the two stores differ in their key sets, or in the time or the label of
\* a key they share
Differ(current, initial) ==
  \/ DOMAIN current # DOMAIN initial
  \/ \E key \in DOMAIN current \cap DOMAIN initial :
       \/ current[key].time # initial[key].time
       \/ current[key].name # initial[key].name

\* C3: hasUnsavedChanges() returns true exactly when hotcuesRef.current and
\* initialHotcuesRef.current differ in their key sets or in the time or the
\* label of a common key, which is structural inequality of the two stores.
C3_DirtyIffDiffer ==
  last.op = "hasUnsavedChanges" =>
    /\ last.result = Differ(hotcuesRef, initialHotcuesRef)
    /\ last.result = (hotcuesRef # initialHotcuesRef)

\* the detector answered for two stores with the same keys and times that
\* differ in one label only
C3_Witness ==
  /\ last.op = "hasUnsavedChanges"
  /\ last.result
  /\ DOMAIN hotcuesRef = DOMAIN initialHotcuesRef
  /\ \A key \in DOMAIN hotcuesRef :
       hotcuesRef[key].time = initialHotcuesRef[key].time
  /\ \E key \in DOMAIN hotcuesRef :
       hotcuesRef[key].name # initialHotcuesRef[key].name

\* the last operation was a keyboard set, a clear or a label edit
IsEdit(l) == SetByLast(l) \/ l.op \in {"clear", "label"}

\* C4: hasUnsavedChanges() is false right after a successful save or a
\* discard, and a set, clear or label edit that follows makes it true when
\* it is queried right after the edit.
C4_EveryEditMakesDirty ==
  [][/\ last'.op \in {"saveOk", "discard"} => ~hasUnsavedChanges'
     /\ (last.op \in {"saveOk", "discard"} /\ IsEdit(last')) =>
          hasUnsavedChanges']_vars

\* C4 (amended): hasUnsavedChanges() is false right after a successful save
\* or a discard; after an edit it is true exactly when the live Hotcue Set
\* then differs from the Saved Snapshot: a set or a clear made while it was
\* false makes it true, a label edit made while it was false makes it true
\* only when the trimmed text differs from the stored label.
C4_EditMakesDirtyIffStoreDiffers ==
  [][/\ last'.op \in {"saveOk", "discard"} => ~hasUnsavedChanges'
     /\ IsEdit(last') =>
          hasUnsavedChanges' = (hotcuesRef' # initialHotcuesRef')
     /\ (~hasUnsavedChanges /\ (SetByLast(last') \/ last'.op = "clear")) =>
          hasUnsavedChanges'
     /\ (~hasUnsavedChanges /\ last'.op = "label") =>
          (hasUnsavedChanges' <=>
             Str(Trim(last'.text)) # NameOf(hotcuesRef[last'.key]))]_vars

\* a label edit that leaves the store clean, made after a save replaced the
\* loaded snapshot
C4_Witness ==
  /\ last.op = "label"
  /\ ~hasUnsavedChanges
  /\ initialHotcuesRef # normalizeHotcues(appHotcues)

\* C5: when a save succeeds the Saved Snapshot becomes a copy of the Hotcue
\* Set submitted in the payload of that request, whatever edits were made
\* while the request was in flight.
C5_SnapshotIsPayload ==
  [][last'.op = "saveOk" => initialHotcuesRef' = last'.payload]_vars

\* C6: a failed save leaves the Saved Snapshot and the live Hotcue Set as
\* they were, so hasUnsavedChanges() keeps its value.
C6_FailureKeepsSnapshot ==
  [][last'.op = "saveFail" =>
       /\ initialHotcuesRef' = initialHotcuesRef
       /\ hotcuesRef' = hotcuesRef
       /\ hasUnsavedChanges' = hasUnsavedChanges]_vars

\* a failed save of a store that has unsaved edits
C6_Witness ==
  /\ last.op = "saveFail"
  /\ hasUnsavedChanges
  /\ ~isSaving

\* C7: only the initial load and a successful save change the Saved
\* Snapshot; keyboard set, jump, clearHotcue, label edit and discardChanges
\* leave it as it was.
C7_OnlyLoadAndSaveChangeSnapshot ==
  [][initialHotcuesRef' # initialHotcuesRef =>
       last'.op \in {"load", "saveOk"}]_vars

\* a clear of a key that an earlier save captured: the Saved Snapshot keeps
\* the entry that the live Hotcue Set lost
C7_Witness ==
  /\ last.op = "clear"
  /\ last.key \in DOMAIN initialHotcuesRef
  /\ last.key \notin DOMAIN hotcuesRef
  /\ initialHotcuesRef # normalizeHotcues(appHotcues)

\* C8: while hasUnsavedChanges() is true, no step of the shell changes the
\* active videoId: a switch happens only once the edits were saved
\* successfully or discarded, that is from a clean store.
C8_NoSwitchWhileDirty ==
  [][(page = "main" /\ page' = "main" /\ videoId' # videoId) =>
       ~playerHasUnsavedChanges]_vars

\* C9: Logout does not leave the main view while the player holds unsaved
\* edits that the user was not offered to save or discard.
C9_NoLogoutWhileDirty ==
  [][(page = "main" /\ page' = "login") => ~playerHasUnsavedChanges]_vars

\* C10: whenever the unsaved-changes modal is shown for a pending video,
\* the shell offers both resolutions: a step that saves and then proceeds,
\* and a step that invokes discardChanges() and then proceeds.
C10_ModalOffersSaveAndDiscard ==
  (page = "main" /\ showUnsavedModal /\ Truthy(pendingVideo)) =>
    /\ Len(requests) + Len(modalTimers) < MaxRequests =>
         ENABLED handleUnsavedModalSave
    /\ ENABLED (Next /\ last'.op = "discard")

\* a pointer interaction on the track has ended with its click, and its
\* mousedown found the player ready with a known duration
InteractionDone == gesture.phase = "done" /\ gesture.armed

\* C11: one drag interaction (mousedown, mousemoves, mouseup and the click
\* that follows) issues exactly one seekTo, with the time computed at the
\* release; no mousemove issues a seekTo and the click issues no second one.
C11_DragSeeksOnce ==
  /\ (gesture.phase = "down") => gesture.cmds = << >>
  /\ (InteractionDone /\ gesture.moved) =>
       gesture.cmds = <<SeekTo(Num(calculateSeekTime(gesture.x)))>>

\* C12: a plain click on the track (mousedown, mouseup and click at one
\* position, player ready, duration > 0) issues exactly one seekTo, to the
\* clicked fraction of the track width, clamped to [0,1], times the duration.
C12_ClickSeeksOnceToFraction ==
  (InteractionDone /\ ~gesture.moved) =>
    gesture.cmds =
      <<SeekTo(Num((Max(0, Min(TrackRect.width, gesture.x - TrackRect.left))
                      * duration) \div TrackRect.width))>>

\* C13: normalizeHotcues is idempotent: normalizing the store it produced
\* from any initialHotcues value gives that store again.
C13_NormalizeIdempotent ==
  /\ hotcuesRef = normalizeHotcues(appHotcues)
  /\ normalizeHotcues(hotcuesRef) = hotcuesRef

\* a load of a mapping with a legacy bare number and an entry that is dropped
C13_Witness ==
  /\ last.op = "load"
  /\ IsMapping(appHotcues)
  /\ \E key \in DOMAIN appHotcues : TypeOf(appHotcues[key]) = "number"
  /\ \E key \in DOMAIN appHotcues : key \notin DOMAIN hotcuesRef

\* the entry is a number, or an object with a numeric time
WellFormed(v) ==
  \/ v.type = "number"
  \/ v.type = "object" /\ "time" \in DOMAIN v /\ v.time.type = "number"

\* the name the entry carries, '' when it carries none
GivenName(v) ==
  IF v.type = "object" /\ "name" \in DOMAIN v /\ v.name \notin {NullV, Undefined}
    THEN v.name ELSE Str(<< >>)

\* C14: normalizeHotcues returns for every input a mapping whose keys are
\* exactly the input keys whose value is a number or an object with a
\* numeric time, each mapped to {time, name} with the same time and with the
\* input name, or '' when there is none; every other entry is dropped.
C14_NormalizeFiltersMalformed ==
  LET raw == appHotcues
      out == normalizeHotcues(appHotcues)
  IN /\ hotcuesRef = out
     /\ IsMapping(out)
     /\ IF ~IsMapping(raw) THEN out = EmptyStore
        ELSE /\ DOMAIN out = {key \in DOMAIN raw : WellFormed(raw[key])}
             /\ \A key \in DOMAIN out :
                  /\ DOMAIN out[key] = {"type", "time", "name"}
                  /\ out[key].time = (IF raw[key].type = "number"
                                        THEN raw[key] ELSE raw[key].time)
                  /\ out[key].name = GivenName(raw[key])

\* a load that keeps an object without a name and drops an object whose time
\* is not a number
C14_Witness ==
  /\ last.op = "load"
  /\ IsMapping(appHotcues)
  /\ \E key \in DOMAIN hotcuesRef :
       /\ appHotcues[key].type = "object"
       /\ "name" \notin DOMAIN appHotcues[key]
       /\ hotcuesRef[key].name = Str(<< >>)
  /\ \E key \in DOMAIN appHotcues :
       /\ key \notin DOMAIN hotcuesRef
       /\ appHotcues[key].type = "object"
       /\ "time" \in DOMAIN appHotcues[key]

\* the failure class of an axios error
FailureClass(error) ==
  IF error.response # NullV THEN "server"
  ELSE IF error.code \in {"ECONNREFUSED", "ERR_NETWORK"} THEN "unreachable"
  ELSE IF error.code = "ECONNABORTED" THEN "timeout"
  ELSE "generic"

\* the rejection carries a response body with an error text and missingFields
HasErrorAndFields(error) ==
  /\ error.response # NullV
  /\ {"error", "missingFields"} \subseteq DOMAIN error.response.data

\* C15: after a save rejected with a response body {error: E, missingFields:
\* F} the message shown contains E and every field name of F, and the Saved
\* Snapshot is unchanged; errors of two different failure classes
\* (unreachable, timeout, server response, generic) give different messages.
C15_ErrorMessageNamesErrorAndFields ==
  [][(last'.op = "saveFail" /\ HasErrorAndFields(last'.error)) =>
       LET data == last'.error.response.data
       IN /\ saveMessage'.type = "error"
          /\ \A i \in 1..Len(data.error) :
               Includes(saveMessage'.text, data.error[i])
          /\ \A i \in 1..Len(data.missingFields) :
               Includes(saveMessage'.text, data.missingFields[i])
          /\ initialHotcuesRef' = initialHotcuesRef
          /\ \A e1, e2 \in SaveErrors :
               FailureClass(e1) # FailureClass(e2) =>
                 saveErrorMessage(e1) # saveErrorMessage(e2)]_vars

\* a save with unsaved edits rejected for two missing fields
C15_Witness ==
  /\ last.op = "saveFail"
  /\ HasErrorAndFields(last.error)
  /\ Len(last.error.response.data.missingFields) = 2
  /\ saveMessage # NullV
  /\ hasUnsavedChanges

\* the POST /videos requests of the mounted instance awaiting their response
InFlight == {i \in 1..Len(requests) : requests[i].live}

\* C16: at most one save request of the mounted player is in flight at any
\* time, whichever entry point (Save button, saveChanges of the imperative
\* handle) started it.
C16_AtMostOneSaveInFlight == Cardinality(InFlight) <= 1

\* C17: for every interleaving of onYouTubeIframeAPIReady, the 100 ms check
\* interval and the animation frames, a mounted instance has constructed at
\* most one YT.Player that has not been destroyed.
C17_AtMostOnePlayer == players <= 1

\* C18: a keydown whose target is an INPUT or a TEXTAREA is ignored, for
\* every key: the Hotcue Set and its pending updates are unchanged, no
\* seekTo, playVideo or pauseVideo is issued, the triggered signal is not
\* written, and preventDefault is not called.
C18_TextTargetIgnored ==
  [][last'.op = "keydown" /\ last'.isText =>
       /\ hotcuesRef' = hotcuesRef
       /\ hotcues' = hotcues
       /\ queue' = queue
       /\ last'.cmds = << >>
       /\ last'.trig = << >>
       /\ ~last'.prevented
       /\ playing' = playing
       /\ playerTime' = playerTime]_vars

\* a hotcue letter that has no entry typed in a text field while the player
\* is ready and another letter has a hotcue
C18_Witness ==
  /\ last.op = "keydown"
  /\ last.isText
  /\ last.key = "q"
  /\ isPlayerReady
  /\ "k" \in DOMAIN hotcuesRef
  /\ "q" \notin DOMAIN hotcuesRef

\* C19: with the player ready and the target not a text field, a keydown of
\* Space or of the play/pause letter 'k' toggles playback (pauseVideo when
\* PLAYING, playVideo otherwise) and does not modify the Hotcue Set.
C19_SpaceOrKToggles ==
  [][(/\ last'.op = "keydown"
      /\ ~last'.isText
      /\ last'.key \in {"Space", "k"}
      /\ isPlayerReady
      /\ ~last'.threws[1]
      /\ ~last'.threws[2]) =>
       /\ hotcuesRef' = hotcuesRef
       /\ Len(last'.cmds) >= 1
       /\ last'.cmds[1] = IF playing THEN PauseVideo ELSE PlayVideo
       /\ playing' = ~playing]_vars

\* a hotcue time that is a number, not NaN, and at least 0
ValidTime(t) == TypeOf(t) = "number" /\ ~IsNaN(t) /\ t.num >= 0

\* C20: in every reachable state every entry of the live Hotcue Set (the
\* hotcues state and hotcuesRef.current) has a valid time: a number that is
\* not NaN and is at least 0, whether the entry came from a load through
\* normalizeHotcues, a keyboard set, a label edit or a discard.
C20_EveryTimeValid ==
  /\ \A key \in DOMAIN hotcuesRef : ValidTime(hotcuesRef[key].time)
  /\ \A key \in DOMAIN hotcues : ValidTime(hotcues[key].time)

\* C21: while the player is not ready (no player object, or the ready flag
\* is false), no keydown changes the Hotcue Set and no keydown issues seekTo,
\* playVideo or pauseVideo; this covers every state between the teardown of
\* one instance and the onReady event of the next.
C21_NotReadyKeysDoNothing ==
  [][last'.op = "keydown" /\ ~(playerRef /\ isPlayerReady) =>
       /\ hotcuesRef' = hotcuesRef
       /\ hotcues' = hotcues
       /\ queue' = queue
       /\ last'.cmds = << >>
       /\ playing' = playing
       /\ playerTime' = playerTime]_vars

\* the key of a stored hotcue pressed after an earlier instance was torn
\* down, on an instance whose player is constructed but not yet ready
C21_Witness ==
  /\ last.op = "keydown"
  /\ last.key = "q"
  /\ "q" \in DOMAIN hotcuesRef
  /\ playerRef
  /\ ~isPlayerReady
  /\ leaked

\* C22: every store mutation (keyboard set, clearHotcue, label edit,
\* discardChanges) is visible to the very next keydown and to the very next
\* hasUnsavedChanges() call: when the mutating event is over no update is
\* left buffered, the rendered state and hotcuesRef.current hold the same
\* mapping, a cleared key is absent, a discarded store is the Saved Snapshot,
\* and a keydown of a key right after its clearHotcue decides to set.
C22_MutationsVisibleAtOnce ==
  [][/\ queue' = << >>
     /\ DOMAIN hotcues' = DOMAIN hotcuesRef'
     /\ \A key \in DOMAIN hotcues' : hotcues'[key] = hotcuesRef'[key]
     /\ last'.op = "clear" => last'.key \notin DOMAIN hotcuesRef'
     /\ last'.op = "discard" => hotcuesRef' = initialHotcuesRef
     /\ last'.op = "label" /\ last'.key \in DOMAIN hotcuesRef =>
          hotcuesRef'[last'.key].name = Str(Trim(last'.text))
     /\ (/\ last.op = "clear"
         /\ last'.op = "keydown"
         /\ last'.key = last.key
         /\ ~last'.isText
         /\ playerRef /\ isPlayerReady) =>
          last'.branches[1] \in {"set", "setInvalid"}]_vars

\* the hotcue of 'q' has just been cleared with the player ready, and the
\* store differs from the Saved Snapshot
C22_Witness ==
  /\ last.op = "clear"
  /\ last.key = "q"
  /\ "q" \notin DOMAIN hotcuesRef
  /\ playerRef
  /\ isPlayerReady
  /\ hasUnsavedChanges

\* C23: while the duration is zero or unknown, or the player is not ready,
\* the scrub handlers are no-ops: mousedown does not enter the dragging
\* state, and neither mouseup nor click issues a seekTo or changes the
\* displayed current time.
C23_ScrubNeedsReadyAndDuration ==
  [][(~(playerRef /\ isPlayerReady) \/ duration = 0) =>
       /\ last'.op = "mousedown" => ~isDragging' /\ dragTime' = dragTime
       /\ last'.op \in {"mouseup", "click"} =>
            /\ gesture'.cmds = gesture.cmds
            /\ currentTime' = currentTime
            /\ playerTime' = playerTime
            /\ isDragging' = isDragging]_vars

\* a whole click on the track of a ready player whose duration is unknown
C23_Witness ==
  /\ last.op = "click"
  /\ playerRef
  /\ isPlayerReady
  /\ duration = 0
  /\ progressBarRef = TrackRect
  /\ gesture.phase = "done"
  /\ gesture.cmds = << >>

\* C24: the scrub controller is the state machine idle -> dragging -> idle:
\* it is dragging only between a mousedown and its mouseup, on a player that
\* is ready, and the next mouseup, or the teardown of the instance, returns
\* it to idle (isDragging false, preview time reset).
C24_DragEndsAtMouseUp ==
  [][/\ isDragging => gesture.phase = "down" /\ playerRef /\ isPlayerReady
     /\ isDragging /\ last'.op = "mouseup" => ~isDragging' /\ dragTime' = 0
     /\ isDragging /\ videoId' # videoId => ~isDragging' /\ dragTime' = 0
     /\ isDragging /\ last'.op \notin {"mouseup", "submit"} => isDragging']_vars

\* the release of a drag that moved the pointer
C24_Witness ==
  /\ last.op = "mouseup"
  /\ gesture.armed
  /\ gesture.moved
  /\ gesture.cmds # << >>
  /\ ~isDragging
  /\ dragTime = 0

\* C25: once the 10 s timeout of the readiness wait has fired without the
\* library being ready, initialization is abandoned: no player is ever
\* constructed for that instance and it stays not ready, also when
\* window.onYouTubeIframeAPIReady is called late.
C25_AbandonedAfterTimeout ==
  timedOut => /\ players = 0
              /\ ~playerRef
              /\ ~isPlayerReady

\* the callbacks of torn-down instances
StaleOps == {"staleFrame", "staleTick", "staleTimeout"}

\* C26: on teardown of an instance (the video changes, or the player
\* unmounts) its player is destroyed and the ready flag becomes false; no
\* player of a torn-down instance stays alive, and no pending callback of a
\* torn-down instance constructs a player or updates the state of the
\* mounted one.
C26_TeardownIsComplete ==
  [][/\ videoId' # videoId =>
          /\ ~isPlayerReady'
          /\ ~playerRef'
          /\ players' = 0
          /\ ~leaked'
     /\ last'.op \in StaleOps =>
          /\ players' = players
          /\ playerRef' = playerRef
          /\ rafs' = rafs
          /\ UNCHANGED <<playbackVars, storeVars, seekVars>>]_vars

\* C27: polling is best-effort: a tick whose getCurrentTime is missing,
\* throws or returns a non-number or NaN leaves the stored current time at
\* its last good value, and likewise getDuration and the stored duration;
\* the stored current time only ever takes a valid number the player
\* returned, and the stored duration is never overwritten by a value that is
\* not greater than 0.
C27_PollingKeepsLastGood ==
  [][last'.op = "timeUpdate" =>
       /\ ~IsValidNumber(last'.time) => currentTime' = currentTime
       /\ ~IsValidNumber(last'.dur) => duration' = duration
       /\ currentTime' # currentTime => currentTime' = last'.time.num
       /\ duration' # duration => duration' = last'.dur.num /\ duration' > 0
       /\ UNCHANGED <<storeVars, playbackVars, saveVars>>]_vars

\* a tick that read NaN as the position and a negative duration, with a
\* position and a duration stored from earlier ticks
C27_Witness ==
  /\ last.op = "timeUpdate"
  /\ last.time = NaN
  /\ last.dur = Num(-1)
  /\ currentTime > 0
  /\ playerTime = 0
  /\ duration = VideoDuration

\* a failure message of the last save is shown
FailureShown == saveMessage # NullV /\ saveMessage.type = "error"

\* C28: a save-failure notification auto-expires: whenever a failure
\* message is shown after a failed save, it is eventually cleared without
\* any further user action.
C28_FailureMessageExpires == FailureShown ~> (saveMessage = NullV)

\* the first run of handleKeyPress for the last keydown set or jumped
\* without an error
TriggeredByLast(l) ==
  /\ l.op = "keydown"
  /\ l.branches[1] \in {"set", "jump"}
  /\ ~l.threws[1]
  /\ ~l.threws[2]

\* C29: every successful set or jump of key K raises the triggered signal
\* for K, and the signal stays K until the 250 ms of that keydown have
\* elapsed or another key is triggered: a timeout of an earlier keydown does
\* not clear the signal a later keydown raised.
C29_FlashLastsItsDuration ==
  [][/\ TriggeredByLast(last') => triggeredHotcue' = last'.key
     /\ (last'.op = "flashTimeout" /\ triggeredHotcue # Null) => last'.own
     /\ (triggeredHotcue # Null /\ triggeredHotcue' # triggeredHotcue) =>
          last'.op \in {"flashTimeout", "keydown"}]_vars

\* a player call threw in a run of handleKeyPress for the last keydown, or
\* getCurrentTime returned a value that is not a valid number
FailedKeyDown(l) ==
  /\ l.op = "keydown"
  /\ \/ l.threws[1]
     \/ l.threws[2]
     \/ "setInvalid" \in {l.branches[1], l.branches[2]}

\* C30: a keydown during which getCurrentTime, seekTo, playVideo, pauseVideo
\* or getPlayerState throws, or getCurrentTime returns a non-number or NaN,
\* leaves the Hotcue Set unchanged: no hotcue is created for that keydown.
C30_FailedKeyDownKeepsHotcues ==
  [][FailedKeyDown(last') => hotcuesRef' = hotcuesRef /\ queue' = queue]_vars

\* the entry is an object {time: number, name: string}
Structured(h) ==
  /\ ~IsMapping(h)
  /\ h.type = "object"
  /\ DOMAIN h = {"type", "time", "name"}
  /\ TypeOf(h.time) = "number"
  /\ TypeOf(h.name) = "string"

AllStructured(store) == \A key \in DOMAIN store : Structured(store[key])

\* C31: in every reachable state each entry of the live Hotcue Set (the
\* hotcues state and hotcuesRef.current), and each entry of the hotcues of
\* every save payload, is an object {time: number, name: string}, also
\* when the video was loaded with legacy bare-number entries.
C31_PayloadIsStructured ==
  /\ AllStructured(hotcues)
  /\ AllStructured(hotcuesRef)
  /\ \A i \in 1..Len(requests) : AllStructured(requests[i].payload)

\* C32: in every reachable state every key of the live Hotcue Set and of
\* the Saved Snapshot is one of the 26 letter keys (a mapping holds a key at
\* most once), including the keys that came from the backend through the
\* initial load.
C32_KeysAreLetters ==
  /\ DOMAIN hotcues \subseteq LETTER_KEYS
  /\ DOMAIN hotcuesRef \subseteq LETTER_KEYS
  /\ DOMAIN initialHotcuesRef \subseteq LETTER_KEYS

\* C33: on beforeunload the shell asks for the leave confirmation
\* (preventDefault and a non-empty returnValue) if and only if a player is
\* mounted and its hasUnsavedChanges() is true at that instant; with no
\* player, or with no unsaved changes, the unload proceeds unprompted.
C33_UnloadPromptsIffDirty ==
  last.op = "beforeunload" =>
    (last.prompted <=> (Mounted /\ Differ(hotcuesRef, initialHotcuesRef)))

\* beforeunload with a mounted player that holds unsaved changes
C33_Witness ==
  /\ last.op = "beforeunload"
  /\ last.prompted
  /\ Mounted
  /\ hotcuesRef # initialHotcuesRef

\* the runs of handleKeyPress for the keydown l that took a branch of kinds
RunsIn(l, kinds) == {i \in 1..2 : l.branches[i] \in kinds}

\* C34: one keydown event reaches the set/jump/toggle logic exactly once,
\* although the handler is registered on window and on document: it causes
\* at most one set-or-jump decision and at most one play/pause toggle.
C34_KeyDownDispatchedOnce ==
  [][last'.op = "keydown" =>
       /\ Cardinality(RunsIn(last', {"set", "setInvalid", "jump"})) <= 1
       /\ Cardinality(RunsIn(last', {"toggle"})) <= 1]_vars

\* C35: after Cancel in the unsaved-changes modal the pending switch is
\* abandoned: unless the next step is a new select or submit request, it
\* leaves the active videoId, youtubeUrl and hotcues of the shell unchanged,
\* also when a Save press preceded the Cancel and its request or its 500 ms
\* callback is still pending.
C35_CancelAbandonsSwitch ==
  [][(last.op = "modalCancel" /\ last'.op \notin {"select", "submit"}) =>
       UNCHANGED <<videoId, youtubeUrl, appHotcues>>]_vars

\* C36: selecting in the sidebar the video that is already active while
\* the player holds unsaved changes leaves the live Hotcue Set and the
\* Saved Snapshot unchanged, also when the record of the sidebar carries
\* another hotcues object than the one the player was mounted with.
C36_ReselectKeepsEdits ==
  [][(/\ last'.op = "select"
      /\ ~last'.blocked
      /\ playerHasUnsavedChanges
      /\ videoId' = videoId) =>
       UNCHANGED <<hotcues, hotcuesRef, initialHotcuesRef>>]_vars

\* C37: when the modal was opened for a pending clear of the selection
\* (handleVideoSelect(null)) and the user chose Save, the step that follows
\* the completed save applies the pending action: the active videoId,
\* youtubeUrl and hotcues become null and the player is unmounted.
C37_SaveThenClearSelection ==
  [][(/\ last'.op = "modalTimeout"
      /\ showUnsavedModal
      /\ Head(modalTimers).pendingAction = "select"
      /\ Head(modalTimers).pendingVideo = NullV) =>
       /\ videoId' = Null
       /\ youtubeUrl' = Null
       /\ appHotcues' = NullV
       /\ ~Mounted']_vars

\* C38: the 5 s timeout started by a successful save never clears a
\* message produced by a later save attempt.  Only successful saves start a
\* timeout, so a failure message on display was produced after every
\* pending timeout was started: no timeout clears a failure message.
C38_TimerSparesLaterMessage ==
  [][last'.op = "clearMessage" => ~FailureShown]_vars

\* the key is in the rendered hotcues state or in hotcuesRef.current
Held(key, state, ref) == key \in DOMAIN state \cup DOMAIN ref

\* C39 as stated: once no state update is pending, the rendered hotcues
\* state and hotcuesRef.current hold the same mapping, after every
\* interleaving of clearHotcue, keyboard sets, label edits and discard; a
\* cleared key is absent from both, and a key absent from both comes back
\* only by a keyboard set of that key.
C39_ClearedKeyBackOnlyBySet ==
  [][/\ queue' = << >> => hotcues' = hotcuesRef'
     /\ last'.op = "clear" => ~Held(last'.key, hotcues', hotcuesRef')
     /\ \A key \in LETTER_KEYS :
          (~Held(key, hotcues, hotcuesRef) /\ Held(key, hotcues', hotcuesRef'))
            => (SetByLast(last') /\ last'.key = key)]_vars

\* C39, amended: the same, where a key absent from both comes back only by
\* a keyboard set of that key or by discardChanges, which restores the
\* Saved Snapshot with the keys cleared since.
C39_ClearedKeyBackOnlyBySetOrDiscard ==
  [][/\ queue' = << >> => hotcues' = hotcuesRef'
     /\ last'.op = "clear" => ~Held(last'.key, hotcues', hotcuesRef')
     /\ \A key \in LETTER_KEYS :
          (~Held(key, hotcues, hotcuesRef) /\ Held(key, hotcues', hotcuesRef'))
            => \/ SetByLast(last') /\ last'.key = key
               \/ last'.op = "discard" /\ key \in DOMAIN initialHotcuesRef]_vars

\* 'q' of the Saved Snapshot was cleared and then 'k' was set by keyboard:
\* 'q' is absent from the state and from the mirror, which agree
C39_Witness ==
  /\ SetByLast(last)
  /\ last.key = "k"
  /\ "q" \in DOMAIN initialHotcuesRef
  /\ ~Held("q", hotcues, hotcuesRef)
  /\ "k" \in DOMAIN hotcues
  /\ hotcues = hotcuesRef
  /\ queue = << >>

\* n spaces
Spaces(n) == [i \in 1..n |-> " "]

\* name is text without the spaces at its two ends
IsTrimOf(name, text) ==
  /\ name = << >> \/ (name[1] # " " /\ name[Len(name)] # " ")
  /\ \E i, j \in 0..Len(text) : text = Spaces(i) \o name \o Spaces(j)

\* C40: a label edit touches only the label of its key: committing it (blur
\* or Enter) on a key of the store sets the label of that key to the
\* trimmed edit text and leaves its time and every other entry unchanged;
\* committing on a key that is not in the store, cancelling with Escape and
\* opening the editor leave the Hotcue Set unchanged; no label edit adds or
\* removes a key.
C40_LabelEditTouchesOwnLabel ==
  [][/\ last'.op = "label" =>
          /\ DOMAIN hotcuesRef' = DOMAIN hotcuesRef
          /\ DOMAIN hotcues' = DOMAIN hotcues
          /\ \A other \in DOMAIN hotcuesRef \ {last'.key} :
               hotcuesRef'[other] = hotcuesRef[other]
          /\ \A other \in DOMAIN hotcues \ {last'.key} :
               hotcues'[other] = hotcues[other]
          /\ last'.key \in DOMAIN hotcuesRef =>
               /\ hotcuesRef'[last'.key].time = hotcuesRef[last'.key].time
               /\ hotcuesRef'[last'.key].name.type = "string"
               /\ IsTrimOf(hotcuesRef'[last'.key].name.str, last'.text)
               /\ hotcues'[last'.key] = hotcuesRef'[last'.key]
          /\ last'.key \notin DOMAIN hotcuesRef =>
               UNCHANGED <<hotcues, hotcuesRef>>
     /\ last'.op \in {"labelEscape", "labelClick"} =>
          UNCHANGED <<hotcues, hotcuesRef>>]_vars

\* the label of 'q' was committed as "a" in a store that holds another
\* hotcue as well
C40_Witness ==
  /\ last.op = "label"
  /\ last.key = "q"
  /\ last.text = <<"a">>
  /\ "q" \in DOMAIN hotcuesRef
  /\ hotcuesRef["q"].name = Str(<<"a">>)
  /\ Cardinality(DOMAIN hotcuesRef) >= 2

====
